---- MODULE Spec2Model ----
(***************************************************************************)
(* Model of the event dispatcher and the collision engine of pg_engine:    *)
(*   src/src/pg_engine/systems/event_system.py                             *)
(*   src/src/pg_engine/systems/collision_system.py                         *)
(* Execution is single threaded: an API call runs to completion, and a     *)
(* drain (update / update_system) invokes its listeners one at a time.     *)
(* The classes of core/bases/lib_abstract.py (TGameObject, TScene, ...) and *)
(* of api/ (IGameObject, IScene, ...) are taken to be the same classes, as  *)
(* the isinstance tests of ListenerContainer.get_listeners require.         *)
(***************************************************************************)
EXTENDS Integers, Sequences, FiniteSets, TLC

\* ---------------------------------------------------------------- bounds
MaxLive == 2        \* events waiting in the two queues at once
MaxEnable == 3      \* calls of enable_collision in the setup of a game

\* ------------------------------------------------------------- universe
NoneV == "None"
GameObjects == {"o1", "o2"}
\* k1 and k3 are scripts of o1, k2 is a script of o2: they have a `source`,
\* game objects and scenes have none
Components == {"k1", "k2", "k3"}
Source == [k \in Components |-> IF k = "k2" THEN "o2" ELSE "o1"]
SceneObjs == {"scene_default", "scene_other"}
SceneName == [s \in SceneObjs |-> IF s = "scene_default" THEN "default" ELSE "other"]
\* IGame().scenes: scene name -> scene object
Scenes == [n \in {"default", "other"} |->
            IF n = "default" THEN "scene_default" ELSE "scene_other"]

\* event types: NOTIFY (event_system.py:23), the platform's quit type and a
\* platform input type (mouse, keyboard), the only one the UI layer claims
NOTIFY == "NOTIFY"
QUIT == "QUIT"
INPUT == "INPUT"
\* collision_system.py:21-22
COLLISION == "COLLISION"
TRIGGER == "TRIGGER"
Types == {NOTIFY, QUIT, INPUT, COLLISION, TRIGGER}

\* colliders and the game object each belongs to (collider.source)
Colliders == {"c1", "c2", "c3"}
ColliderSource == [c \in Colliders |-> IF c = "c2" THEN "o2" ELSE "o1"]
Layers == {"L1", "L2"}
AllSceneNames == DOMAIN Scenes
\* the plane is two cells, "x1" and "x2": a positioned mask covers one
\* clock.tick(fps): milliseconds since the last frame
DTs == {"dt1", "dt2"}

\* payload mappings handed to send by its callers (Python dicts)
EmptyDict == [x \in {} |-> NoneV]
KDict == [x \in {"k"} |-> "v"]
StaleDict == [x \in {"k", "listener"} |-> IF x = "k" THEN "v" ELSE "stale"]

\* listener callables (bound methods): recv is the receiver (__self__), act is
\* what the callable does, and (scope, type, key) is the registration it gets:
\* "local" is register_event_hook(type, key, h), "broadcast" is
\* register_broadcast_hook(type, key, h)
HookDef == [
    h1 |-> [recv |-> "o1", type |-> NOTIFY, scope |-> "local", key |-> "o1", act |-> "noop"],
    h2 |-> [recv |-> "k1", type |-> NOTIFY, scope |-> "local", key |-> "k1", act |-> "put_sys"],
    h3 |-> [recv |-> "o2", type |-> NOTIFY, scope |-> "local", key |-> "o2", act |-> "noop"],
    h5 |-> [recv |-> "k1", type |-> NOTIFY, scope |-> "broadcast", key |-> NoneV, act |-> "noop"],
    h6 |-> [recv |-> "o2", type |-> NOTIFY, scope |-> "broadcast", key |-> "default", act |-> "noop"],
    h7 |-> [recv |-> "o2", type |-> QUIT, scope |-> "broadcast", key |-> NoneV, act |-> "noop"],
    h8 |-> [recv |-> "o2", type |-> NOTIFY, scope |-> "broadcast", key |-> "scene_default", act |-> "noop"],
    h9 |-> [recv |-> "o1", type |-> INPUT, scope |-> "broadcast", key |-> NoneV, act |-> "noop"],
    h10 |-> [recv |-> "o2", type |-> NOTIFY, scope |-> "local", key |-> "o2", act |-> "post_native"],
    h11 |-> [recv |-> "k1", type |-> COLLISION, scope |-> "local", key |-> "k1", act |-> "on_collision"],
    h12 |-> [recv |-> "k3", type |-> COLLISION, scope |-> "local", key |-> "k3", act |-> "noop"],
    h13 |-> [recv |-> "o1", type |-> NOTIFY, scope |-> "local", key |-> "o1", act |-> "register"],
    h14 |-> [recv |-> "o1", type |-> NOTIFY, scope |-> "local", key |-> "o1", act |-> "noop"],
    h15 |-> [recv |-> "o1", type |-> NOTIFY, scope |-> "local", key |-> "o1", act |-> "destroy"],
    h16 |-> [recv |-> "o1", type |-> NOTIFY, scope |-> "broadcast", key |-> NoneV, act |-> "destroy"],
    h17 |-> [recv |-> "o1", type |-> NOTIFY, scope |-> "broadcast", key |-> NoneV, act |-> "noop"],
    h18 |-> [recv |-> "k1", type |-> NOTIFY, scope |-> "broadcast", key |-> NoneV, act |-> "noop"]]
\* what a callable of act "register" registers when it is invoked, and the
\* game object a callable of act "destroy" calls destroy() on
ActArg == [h13 |-> "h14", h15 |-> "o1", h16 |-> "o1"]
Hooks == DOMAIN HookDef
\* the callables of the specifications Spec and SpecLife
EventHooks == {"h1", "h2", "h3", "h5", "h6", "h7"}

VARIABLES
    listeners,            \* ListenerContainer.listeners: type -> dict(key -> list)
    broadcast_listeners,  \* ListenerContainer.broadcast_listeners
    nativeQ,              \* the platform queue behind pygame.event
    sysQ,                 \* SystemEventQueue.queue
    running,              \* IGame()._running
    pc,                   \* "idle", or the position inside _eventloop
    drainKind,            \* "native" (update) or "system" (update_system)
    batch,                \* the list event_source.get() returned
    bi,                   \* index in batch of the event in dispatch
    iterList,             \* the listener list being iterated
    hi,                   \* index in iterList of the next hook
    calls,                \* history: the hook invocations of the current drain
    routed,               \* history: per event of the batch, how it was routed
    registered,           \* history: per scope, type and key, the callables
                          \* registered and not removed since, in order
    collision_layers,     \* CollisionSystem.collision_layers: layer -> list
    interractions,        \* CollisionSystem.interractions: set of sets of layers
    colliders,            \* the colliders constructed: physics, cells, layers
    go_scene,             \* gameobject.scene, a scene name
    active_scene,         \* IGame()._active_scene
    phase,                \* "free", "setup", or the position in the frame
    dt,                   \* the dt of the frame
    emitted,              \* history: the events of the pass that ran last
    exists,               \* gameobject.exists, per game object
    controller,           \* the class of IGame().system_controller: "base" is
                          \* BaseSystemController, "extended" is
                          \* ExtendedSystemController with no extended system
    classes,              \* the listener classes defined: name -> bases and
                          \* __create_event_listeners__
    construct,            \* the EventListener instance under construction and
                          \* the position of PostInit.__call__ in it
    reg_calls,            \* history: the registration calls of the constructions
    enable_calls,         \* history: the argument pairs of enable_collision
    scripts,              \* per game object, its script components in order
    position,             \* gameobject.transform.position, per game object
    store_phys,           \* CollisionScript.store_phys, per script
    scene_objs,           \* scene.gameobjects, per scene name
    sweep,                \* the position of Scene.update in its loop, and the
                          \* history of the update calls of the frame
    renderer,             \* BaseRenderer: cached_scene, scheduled_update, cache
    detached,             \* the list in dispatch is no longer the list object
                          \* the container holds under its key
    ctl,                  \* an ExtendedSystemController and its update(dt)
    loader,               \* a PluginLoader: graph, and the call in progress
    lost                  \* history: the events of its batch the drain that
                          \* raised last had not reached

vars == <<listeners, broadcast_listeners, nativeQ, sysQ, running, pc, drainKind,
          batch, bi, iterList, hi, calls, routed, registered, collision_layers,
          interractions, colliders, go_scene, active_scene, phase, dt, emitted,
          exists, controller, classes, construct, reg_calls, enable_calls, scripts,
          position, store_phys, scene_objs, sweep, renderer, detached, ctl, loader,
          lost>>

\* ------------------------------------------------------- Python dicts
DictGet(d, k, default) == IF k \in DOMAIN d THEN d[k] ELSE default
DictSet(d, k, v) == [x \in DOMAIN d \cup {k} |-> IF x = k THEN v ELSE d[x]]
DictDel(d, k) == [x \in DOMAIN d \ {k} |-> d[x]]
\* data | {'listener': target}
DictMerge(d, k, v) == DictSet(d, k, v)
HasSource(x) == x \in Components

\* --------------------------------------------------- ListenerContainer
EmptyContainer == [t \in Types |-> EmptyDict]

\* ListenerContainer._add_listener_to
AddListenerTo(listener_dict, evt_type, listener, method) ==
    LET evt_type_dict == listener_dict[evt_type]
        listener_methods == DictGet(evt_type_dict, listener, <<>>)
    IN  IF listener \notin DOMAIN evt_type_dict
        THEN LET key == IF HasSource(listener) THEN Source[listener] ELSE listener
             IN  [listener_dict EXCEPT
                    ![evt_type] = DictSet(evt_type_dict, key, Append(listener_methods, method))]
        ELSE [listener_dict EXCEPT
                ![evt_type] = DictSet(evt_type_dict, listener, Append(listener_methods, method))]

\* ListenerContainer._read_listener
ReadListener(evt_type, listener_dict, listener_target) ==
    DictGet(listener_dict[evt_type], listener_target, <<>>)

\* event.dict.get('listener')
DefinedListener(event) == DictGet(event.dict, "listener", NoneV)

\* get_listeners that looks a scene's listeners up under the scene object
\* and not under its name
GetListenersByObject(event) ==
    LET defined_listener == DefinedListener(event)
    IN  IF defined_listener = NoneV
        THEN [ok |-> TRUE, bucket |-> "broadcast", key |-> NoneV,
              list |-> ReadListener(event.type, broadcast_listeners, NoneV)]
        ELSE IF defined_listener \in SceneObjs
        THEN [ok |-> TRUE, bucket |-> "broadcast", key |-> defined_listener,
              list |-> ReadListener(event.type, broadcast_listeners, defined_listener)]
        ELSE IF defined_listener \in GameObjects
        THEN [ok |-> TRUE, bucket |-> "local", key |-> defined_listener,
              list |-> ReadListener(event.type, listeners, defined_listener)]
        ELSE [ok |-> FALSE, bucket |-> "none", key |-> defined_listener, list |-> <<>>]

\* get_listeners that takes an event with a target of no known kind for a
\* global broadcast
GetListenersLenient(event) ==
    LET defined_listener == DefinedListener(event)
    IN  IF defined_listener \in SceneObjs
        THEN [ok |-> TRUE, bucket |-> "broadcast", key |-> SceneName[defined_listener],
              list |-> ReadListener(event.type, broadcast_listeners,
                                    SceneName[defined_listener])]
        ELSE IF defined_listener \in GameObjects
        THEN [ok |-> TRUE, bucket |-> "local", key |-> defined_listener,
              list |-> ReadListener(event.type, listeners, defined_listener)]
        ELSE [ok |-> TRUE, bucket |-> "broadcast", key |-> NoneV,
              list |-> ReadListener(event.type, broadcast_listeners, NoneV)]

\* ListenerContainer.get_listeners: the bucket, the key and the list it reads,
\* or ok = FALSE where it raises NotImplementedError
GetListeners(event) ==
    LET defined_listener == DefinedListener(event)
    IN  IF defined_listener = NoneV
        THEN [ok |-> TRUE, bucket |-> "broadcast", key |-> NoneV,
              list |-> ReadListener(event.type, broadcast_listeners, NoneV)]
        ELSE IF defined_listener \in SceneObjs
        THEN [ok |-> TRUE, bucket |-> "broadcast", key |-> SceneName[defined_listener],
              list |-> ReadListener(event.type, broadcast_listeners,
                                    SceneName[defined_listener])]
        ELSE IF defined_listener \in GameObjects
        THEN [ok |-> TRUE, bucket |-> "local", key |-> defined_listener,
              list |-> ReadListener(event.type, listeners, defined_listener)]
        ELSE [ok |-> FALSE, bucket |-> "none", key |-> defined_listener, list |-> <<>>]

\* x.__self__ is not gameobject, for the bound method x
KeepHook(h, gameobject) == HookDef[h].recv # gameobject

\* a remove_gameobject that leaves the local bucket as it is
RemoveFromListenersKeep(listener_dict, gameobject) == listener_dict

\* ListenerContainer.remove_gameobject, on the local bucket
RemoveFromListeners(listener_dict, gameobject) ==
    [t \in Types |-> DictDel(listener_dict[t], gameobject)]

\* ListenerContainer.remove_gameobject, on the broadcast bucket
RemoveFromBroadcast(broadcast_dict, gameobject) ==
    [t \in Types |->
        [scene \in DOMAIN broadcast_dict[t] |->
            SelectSeq(broadcast_dict[t][scene], LAMBDA x : KeepHook(x, gameobject))]]

\* ----------------------------------------------------------- events
RECURSIVE SeqToSet(_)
SeqToSet(s) == IF s = <<>> THEN {} ELSE {Head(s)} \cup SeqToSet(Tail(s))

\* the two queues as one value: native is the platform queue, sys the
\* SystemEventQueue
Queues == [native |-> nativeQ, sys |-> sysQ]
\* the events that exist in queues q: queued, or in the list a drain works on
LiveEvents(q) == SeqToSet(q.native) \cup SeqToSet(q.sys) \cup SeqToSet(batch)
\* the events waiting in the two queues
Queued == Len(nativeQ) + Len(sysQ)
\* the smallest n elements of a set of numbers, ascending
RECURSIVE Smallest(_, _)
Smallest(S, n) ==
    IF n = 0 THEN <<>>
    ELSE LET m == CHOOSE x \in S : \A y \in S : x <= y
         IN  <<m>> \o Smallest(S \ {m}, n - 1)
\* identities for n new dict objects: none that a live event's dict has (the
\* events in lost keep theirs, so that they stay recognisable)
FreshDids(q, n) ==
    LET used == {e.did : e \in LiveEvents(q) \cup lost}
    IN  Smallest((1..(Cardinality(used) + n)) \ used, n)

\* pygame.event.Event(type, dict): did is the identity of its dict; idx and src
\* are history: the position in the target list and the arguments of the send
MkEvent(type, dict, did, idx, src) ==
    [type |-> type, dict |-> dict, did |-> did, idx |-> idx, src |-> src]

SendSrc(kind, event_type, targets, data, system) ==
    [kind |-> kind, type |-> event_type, targets |-> targets, data |-> data,
     system |-> system]

\* send with one payload dict written to by every turn of the loop and shared
\* by the events: the aliasing C1 rules out
TargetEventsShared(q, event_type, targets, data, system) ==
    LET dids == FreshDids(q, 1)
        src == SendSrc("send", event_type, targets, data, system)
    IN  [i \in 1..Len(targets) |->
            MkEvent(event_type, DictMerge(data, "listener", targets[Len(targets)]),
                    dids[1], i, src)]

\* EventSystem.send, targets is a list: the events of the loop, in order;
\* dids[1] is the caller's data dict, each extra_data is a new dict
TargetEvents(q, event_type, targets, data, system) ==
    LET dids == FreshDids(q, Len(targets) + 1)
        src == SendSrc("send", event_type, targets, data, system)
    IN  [i \in 1..Len(targets) |->
            MkEvent(event_type, DictMerge(data, "listener", targets[i]),
                    dids[i + 1], i, src)]

\* EventSystem.send, targets is None: one event built on the caller's dict
BroadcastEvent(q, event_type, data, system) ==
    MkEvent(event_type, data, FreshDids(q, 1)[1], 0,
            SendSrc("broadcast", event_type, <<>>, data, system))

\* send that posts to the native queue whatever `system` is
SendOnNative(q, event_type, targets, data, system) ==
    [q EXCEPT !.native = @ \o TargetEvents(q, event_type, targets, data, system)]

\* EventSystem.send with a target list, on the queues q: not system posts
\* every event to the native queue, system puts it in the SystemEventQueue
SendOn(q, event_type, targets, data, system) ==
    IF system
    THEN [q EXCEPT !.sys = @ \o TargetEvents(q, event_type, targets, data, system)]
    ELSE [q EXCEPT !.native = @ \o TargetEvents(q, event_type, targets, data, system)]

\* a send that puts the event of targets None in the SystemEventQueue when
\* system is true
SendNoneOnBySystem(q, event_type, data, system) ==
    IF system
    THEN [q EXCEPT !.sys = Append(@, BroadcastEvent(q, event_type, data, system))]
    ELSE [q EXCEPT !.native = Append(@, BroadcastEvent(q, event_type, data, system))]

\* EventSystem.send, targets None, on the queues q
SendNoneOn(q, event_type, data, system) ==
    [q EXCEPT !.native = Append(@, BroadcastEvent(q, event_type, data, system))]

SetQueues(q) ==
    /\ nativeQ' = q.native
    /\ sysQ' = q.sys

\* --------------------------------------------------- CollisionSystem
\* IS_PHYSICS.get(event_type, False)
IsPhysics(event_type) == event_type = COLLISION

\* CollisionSystem.add
AddToLayer(layers, collider, layer) ==
    DictSet(layers, layer, Append(DictGet(layers, layer, <<>>), collider))

\* IColliderComponent.__post_init__: add(self, layer) for each of its layers
RECURSIVE AddToLayers(_, _, _)
AddToLayers(layers, collider, names) ==
    IF names = <<>> THEN layers
    ELSE AddToLayers(AddToLayer(layers, collider, Head(names)), collider, Tail(names))

\* pygame.sprite.Group(list): the sprites of the list, each once, in order
RECURSIVE Group(_)
Group(list) ==
    IF list = <<>> THEN <<>>
    ELSE LET rest == Group(SubSeq(list, 1, Len(list) - 1))
             last == list[Len(list)]
         IN  IF last \in SeqToSet(rest) THEN rest ELSE Append(rest, last)

\* a filter of get_groups that takes the colliders of every scene
InGroupAnyScene(collider, physics) == colliders[collider].physics = physics

\* the filter of get_groups on one collider
InGroup(collider, physics) ==
    /\ colliders[collider].physics = physics
    /\ active_scene = go_scene[ColliderSource[collider]]

\* CollisionSystem.get_groups; first is the layer the iteration over the
\* frozenset yields first
GetGroups(interraction, physics, first) ==
    LET is_self_collision == Cardinality(interraction) = 1
        firstLayer == IF first \in interraction THEN first
                      ELSE CHOOSE l \in interraction : TRUE
        order == IF is_self_collision THEN <<firstLayer, firstLayer>>
                 ELSE <<firstLayer, CHOOSE l \in interraction : l # firstLayer>>
        group(layer) == Group(SelectSeq(DictGet(collision_layers, layer, <<>>),
                                        LAMBDA c : InGroup(c, physics)))
    IN  [g1 |-> group(order[1]), g2 |-> group(order[2]), self_group |-> is_self_collision]

\* a collided callback that reports every pair as colliding
CollideAlways(a, b) == TRUE

\* pygame.sprite.collide_mask: the positioned masks share a cell
CollideMask(a, b) == colliders[a].cells \cap colliders[b].cells # {}

\* pygame.sprite.groupcollide(g1, g2, False, False, collide_mask), as the
\* list of (g1_sprite, g2_sprite) the two loops of handle_collisions visit
RECURSIVE GroupCollide(_, _)
GroupCollide(g1, g2) ==
    IF g1 = <<>> THEN <<>>
    ELSE LET a == Head(g1)
             hits == SelectSeq(g2, LAMBDA b : CollideMask(a, b))
         IN  [i \in 1..Len(hits) |-> <<a, hits[i]>>] \o GroupCollide(Tail(g1), g2)

\* _create_collision_event that posts every event to the native queue
CollisionEventNative(event_type, target, collides_with, frame_dt, is_system_event, inter, mirror) ==
    [type |-> event_type, target |-> ColliderSource[target],
     collides |-> ColliderSource[collides_with], dt |-> frame_dt,
     system |-> FALSE, a |-> target, b |-> collides_with,
     inter |-> inter, mirror |-> mirror]

\* _create_collision_event that puts every event in the SystemEventQueue
CollisionEventSystem(event_type, target, collides_with, frame_dt, is_system_event, inter, mirror) ==
    [type |-> event_type, target |-> ColliderSource[target],
     collides |-> ColliderSource[collides_with], dt |-> frame_dt,
     system |-> TRUE, a |-> target, b |-> collides_with,
     inter |-> inter, mirror |-> mirror]

\* CollisionSystem._create_collision_event: the send it makes; a, b, inter
\* and mirror are history (the pair, the interaction, the second call)
CollisionEvent(event_type, target, collides_with, frame_dt, is_system_event, inter, mirror) ==
    [type |-> event_type, target |-> ColliderSource[target],
     collides |-> ColliderSource[collides_with], dt |-> frame_dt,
     system |-> is_system_event, a |-> target, b |-> collides_with,
     inter |-> inter, mirror |-> mirror]

\* the inner loop without its second _create_collision_event
PairEventsNoMirror(event_type, g1_sprite, g2_sprite, frame_dt, self_group, inter) ==
    IF ColliderSource[g1_sprite] = ColliderSource[g2_sprite]
    THEN <<>>
    ELSE <<CollisionEvent(event_type, g1_sprite, g2_sprite, frame_dt,
                          IsPhysics(event_type), inter, FALSE)>>

\* the inner loop without the self_group test
PairEventsAlwaysMirror(event_type, g1_sprite, g2_sprite, frame_dt, self_group, inter) ==
    IF ColliderSource[g1_sprite] = ColliderSource[g2_sprite]
    THEN <<>>
    ELSE <<CollisionEvent(event_type, g1_sprite, g2_sprite, frame_dt,
                          IsPhysics(event_type), inter, FALSE),
           CollisionEvent(event_type, g2_sprite, g1_sprite, frame_dt,
                          IsPhysics(event_type), inter, TRUE)>>

\* the inner loop without the test on the two owners
PairEventsAnyOwner(event_type, g1_sprite, g2_sprite, frame_dt, self_group, inter) ==
    <<CollisionEvent(event_type, g1_sprite, g2_sprite, frame_dt,
                     IsPhysics(event_type), inter, FALSE)>>
    \o (IF self_group THEN <<>>
        ELSE <<CollisionEvent(event_type, g2_sprite, g1_sprite, frame_dt,
                              IsPhysics(event_type), inter, TRUE)>>)

\* handle_collisions, the body of the inner loop for one pair
PairEvents(event_type, g1_sprite, g2_sprite, frame_dt, self_group, inter) ==
    IF ColliderSource[g1_sprite] = ColliderSource[g2_sprite]
    THEN <<>>
    ELSE <<CollisionEvent(event_type, g1_sprite, g2_sprite, frame_dt,
                          IsPhysics(event_type), inter, FALSE)>>
         \o (IF self_group THEN <<>>
             ELSE <<CollisionEvent(event_type, g2_sprite, g1_sprite, frame_dt,
                                   IsPhysics(event_type), inter, TRUE)>>)

RECURSIVE PairsEvents(_, _, _, _, _)
PairsEvents(event_type, pairs, frame_dt, self_group, inter) ==
    IF pairs = <<>> THEN <<>>
    ELSE PairEvents(event_type, Head(pairs)[1], Head(pairs)[2], frame_dt, self_group, inter)
         \o PairsEvents(event_type, Tail(pairs), frame_dt, self_group, inter)

\* handle_collisions, the body of the outer loop for one interaction
InterractionEvents(event_type, interraction, frame_dt, first) ==
    LET g == GetGroups(interraction, IsPhysics(event_type), first)
    IN  PairsEvents(event_type, GroupCollide(g.g1, g.g2), frame_dt, g.self_group,
                    interraction)

\* handle_collisions: the sends of one pass, the interactions taken in order
RECURSIVE PassEvents(_, _, _, _)
PassEvents(event_type, order, frame_dt, first) ==
    IF order = <<>> THEN <<>>
    ELSE InterractionEvents(event_type, Head(order), frame_dt, first)
         \o PassEvents(event_type, Tail(order), frame_dt, first)

\* the payload _create_collision_event hands to send
CollisionData(ev) ==
    [x \in {"collides", "dt"} |-> IF x = "collides" THEN ev.collides ELSE ev.dt]

\* the sends of a pass applied to the queues, one after the other
RECURSIVE SendAll(_, _)
SendAll(q, evs) ==
    IF evs = <<>> THEN q
    ELSE SendAll(SendOn(q, Head(evs).type, <<Head(evs).target>>,
                        CollisionData(Head(evs)), Head(evs).system),
                 Tail(evs))

\* the orders in which a set can be iterated
RECURSIVE Orders(_)
Orders(S) ==
    IF S = {} THEN {<<>>}
    ELSE UNION {{<<x>> \o o : o \in Orders(S \ {x})} : x \in S}

\* ------------------------------------------------------- inputs
TargetLists == {<<"o2", "o1">>, <<"o1", "o1">>}
PlatformTypes == {QUIT, INPUT}
LayerLists == {<<"L1">>, <<"L2">>, <<"L1", "L2">>}
\* where a collider may be put: c1 stays, the others lie on it or beside it
CellSets == [c \in Colliders |-> IF c = "c1" THEN {{"x1"}} ELSE {{"x1"}, {"x2"}}]
EnableArgs == {<<"L1", "L1">>, <<"L1", "L2">>, <<"L2", "L1">>}

\* IUIManager.process_events: the UI layer may claim a platform input event
UIClaims(event) == IF event.type = INPUT THEN BOOLEAN ELSE {FALSE}

\* the classes of the engine: EventListener is the root of the listener
\* classes, it has __create_listener_list__ and no list of its own; TScript is
\* no listener class
RootClasses ==
    [c \in {"EventListener", "TScript"} |->
        [bases |-> <<>>, listener |-> c = "EventListener", has_list |-> FALSE,
             own |-> <<>>, tags |-> <<>>]]
NoConstruction == [pc |-> "idle", inst |-> NoneV, cls |-> NoneV, i |-> 1, built |-> EmptyDict]

\* the positions of the plane a transform takes; "p1" lies outside the bounds
\* an OOBCleanup script is given
Positions == {"p0", "p1"}

\* scene.gameobjects of every scene once the scenes are built: the objects
\* in the order they were built
BuildOrder == <<"o1", "o2">>
SceneLists(scene_of) ==
    [n \in AllSceneNames |-> SelectSeq(BuildOrder, LAMBDA o : scene_of[o] = n)]

\* Scene.update is not running
NoSweep == [pc |-> "idle", scene |-> NoneV, i |-> 0, start |-> <<>>, updated |-> <<>>]

\* BaseRenderer.__init__; dirty is history: a cache update was scheduled
\* since the cache was last rebuilt
NewRenderer ==
    [cached_scene |-> NoneV, scheduled_update |-> FALSE, cache |-> <<>>, dirty |-> FALSE]

\* no ExtendedSystemController is in use
NoController == [extended_systems |-> <<>>, sequence_hooks |-> <<>>, pc |-> "idle",
                 i |-> 1, dt |-> NoneV, raised |-> FALSE, log |-> <<>>]

\* no PluginLoader is in use
NoLoader == [graph |-> EmptyDict, order |-> <<>>, pc |-> "idle", result |-> <<>>,
             to_load |-> <<>>, printed |-> <<>>]

InitBase ==
    /\ listeners = EmptyContainer
    /\ broadcast_listeners = EmptyContainer
    /\ nativeQ = <<>>
    /\ sysQ = <<>>
    /\ pc = "idle"
    /\ drainKind = "native"
    /\ batch = <<>>
    /\ bi = 1
    /\ iterList = <<>>
    /\ hi = 1
    /\ calls = <<>>
    /\ routed = <<>>
    /\ registered = [sc \in {"local", "broadcast"} |-> EmptyContainer]
    /\ collision_layers = EmptyDict
    /\ interractions = {}
    /\ colliders = EmptyDict
    /\ active_scene = "default"
    /\ dt = "dt1"
    /\ emitted = <<>>
    /\ exists = [o \in GameObjects |-> TRUE]
    /\ classes = RootClasses
    /\ construct = NoConstruction
    /\ reg_calls = <<>>
    /\ enable_calls = <<>>
    /\ sweep = NoSweep
    /\ renderer = NewRenderer
    /\ detached = FALSE
    /\ lost = {}

\* game objects without scripts, all at "p0"; no extended controller and no
\* plugin loader
InitCommon ==
    /\ InitBase
    /\ scripts = [o \in GameObjects |-> <<>>]
    /\ position = [o \in GameObjects |-> "p0"]
    /\ store_phys = [k \in Components |-> NoneV]
    /\ ctl = NoController
    /\ loader = NoLoader

\* a started game (before_start has run), the API of the event system called
\* in any order
Init ==
    /\ InitCommon
    /\ running = TRUE
    /\ controller = "base"
    /\ go_scene = [o \in GameObjects |-> "default"]
    /\ phase = "free"
    /\ scene_objs = SceneLists(go_scene)

\* the systems after construction, before the scene is set up and the game
\* loop runs; o2 is built in either scene
InitGame ==
    /\ InitCommon
    /\ running = FALSE
    /\ controller = "base"
    /\ go_scene \in {[o \in GameObjects |-> IF o = "o2" THEN sc ELSE "default"] :
                        sc \in AllSceneNames}
    /\ phase = "setup"
    /\ scene_objs = SceneLists(go_scene)

drainVars == <<pc, drainKind, batch, bi, iterList, hi, calls, routed>>
containerVars == <<listeners, broadcast_listeners, registered>>
collisionVars == <<collision_layers, interractions, colliders, go_scene, active_scene,
                   emitted>>
frameVars == <<phase, dt>>
lifeVars == <<exists, controller>>
protoVars == <<classes, construct, reg_calls>>
sceneVars == <<scripts, position, store_phys, scene_objs, sweep>>
toolVars == <<ctl, loader>>
moreVars == <<sceneVars, renderer, detached, toolVars, lost>>
restVars == <<protoVars, enable_calls, moreVars>>
gameVars == <<nativeQ, sysQ, containerVars, running, lifeVars, drainVars, collisionVars,
              frameVars, protoVars, enable_calls, sceneVars, renderer, detached, lost>>

\* ------------------------------------------------- calls of the API
\* EventSystem.send(event_type, targets, data, system), targets a list
Send(event_type, targets, data, system) ==
    /\ pc = "idle"
    /\ phase \in {"free", "hook1"}
    /\ Queued + Len(targets) <= MaxLive
    /\ SetQueues(SendOn(Queues, event_type, targets, data, system))
    /\ UNCHANGED <<containerVars, running, lifeVars, restVars, drainVars, collisionVars, frameVars>>

\* EventSystem.send(event_type, None, data, system); broadcast calls it
SendNone(event_type, data, system) ==
    /\ pc = "idle"
    /\ phase = "free"
    /\ Queued < MaxLive
    /\ SetQueues(SendNoneOn(Queues, event_type, data, system))
    /\ UNCHANGED <<containerVars, running, lifeVars, restVars, drainVars, collisionVars, frameVars>>

\* EventSystem.broadcast_scene(event_type, scene_name, data, system)
BroadcastScene(event_type, scene_name, data, system) ==
    /\ pc = "idle"
    /\ phase = "free"
    /\ Queued < MaxLive
    /\ LET scene == DictGet(Scenes, scene_name, NoneV)
       IN  SetQueues(SendOn(Queues, event_type, <<scene>>, data, system))
    /\ UNCHANGED <<containerVars, running, lifeVars, restVars, drainVars, collisionVars, frameVars>>

\* the platform queues an event of its own (window close, mouse, keyboard)
PlatformPost(event_type) ==
    /\ pc = "idle"
    /\ phase \in {"free", "hook1"}
    /\ Queued < MaxLive
    /\ nativeQ' = Append(nativeQ,
            MkEvent(event_type, EmptyDict, FreshDids(Queues, 1)[1], 0,
                    SendSrc("platform", event_type, <<>>, EmptyDict, FALSE)))
    /\ UNCHANGED <<sysQ, containerVars, running, lifeVars, restVars, drainVars, collisionVars, frameVars>>

\* the key a registration of h is meant to land under: the owner, or the
\* game object the owner is a component of
NormKey(h) == IF HasSource(HookDef[h].key) THEN Source[HookDef[h].key] ELSE HookDef[h].key
\* remove_gameobject(gameobject) is meant to remove the registration of h
RemovalCovers(h, gameobject) ==
    IF HookDef[h].scope = "local" THEN NormKey(h) = gameobject
    ELSE HookDef[h].recv = gameobject

\* the callable h is registered, and not removed since
IsRegistered(h) ==
    h \in SeqToSet(DictGet(registered[HookDef[h].scope][HookDef[h].type], NormKey(h), <<>>))

\* EventSystem.register_event_hook / register_broadcast_hook, with the
\* arguments the callable h is registered with; a callable is registered once
Register(h) ==
    /\ pc = "idle"
    /\ phase \in {"free", "setup"}
    /\ ~IsRegistered(h)
    /\ registered' = [registered EXCEPT ![HookDef[h].scope][HookDef[h].type] =
            DictSet(@, NormKey(h), Append(DictGet(@, NormKey(h), <<>>), h))]
    /\ IF HookDef[h].scope = "local"
       THEN /\ listeners' = AddListenerTo(listeners, HookDef[h].type, HookDef[h].key, h)
            /\ UNCHANGED broadcast_listeners
       ELSE /\ broadcast_listeners' =
                    AddListenerTo(broadcast_listeners, HookDef[h].type, HookDef[h].key, h)
            /\ UNCHANGED listeners
    /\ UNCHANGED <<nativeQ, sysQ, running, lifeVars, restVars, drainVars, collisionVars, frameVars>>

\* ListenerContainer.remove_gameobject, on the container of the event system
RemoveFromEventSystem(gameobject) ==
    /\ listeners' = RemoveFromListeners(listeners, gameobject)
    /\ broadcast_listeners' = RemoveFromBroadcast(broadcast_listeners, gameobject)
    /\ registered' = [sc \in {"local", "broadcast"} |-> [t \in Types |->
            LET kept(k) == SelectSeq(registered[sc][t][k],
                                     LAMBDA h : ~RemovalCovers(h, gameobject))
            IN  [k \in {x \in DOMAIN registered[sc][t] : kept(x) # <<>>} |-> kept(k)]]]

\* EventSystem.remove_gameobject
RemoveGameobject(gameobject) ==
    /\ pc = "idle"
    /\ phase = "free"
    /\ RemoveFromEventSystem(gameobject)
    /\ UNCHANGED <<nativeQ, sysQ, running, lifeVars, restVars, drainVars, collisionVars, frameVars>>

\* a remove_gameobject of the collision system that filters no layer
RemoveFromLayersNone(layers, gameobject) == layers

\* CollisionSystem.remove_gameobject: every layer without the colliders whose
\* source is gameobject
RemoveFromLayers(layers, gameobject) ==
    [layer \in DOMAIN layers |->
        SelectSeq(layers[layer], LAMBDA collider : ColliderSource[collider] # gameobject)]

\* the game object a callable belongs to: its receiver, or the game object
\* its receiver is a script or a component of
Owner(h) == IF HasSource(HookDef[h].recv) THEN Source[HookDef[h].recv] ELSE HookDef[h].recv

\* Scene.remove_gameobject: list.remove takes the first occurrence out
SceneRemove(gameobjects, gameobject) ==
    IF \E i \in 1..Len(gameobjects) : gameobjects[i] = gameobject
    THEN LET at == CHOOSE i \in 1..Len(gameobjects) :
                    /\ gameobjects[i] = gameobject
                    /\ \A j \in 1..(i - 1) : gameobjects[j] # gameobject
         IN  SubSeq(gameobjects, 1, at - 1) \o SubSeq(gameobjects, at + 1, Len(gameobjects))
    ELSE gameobjects

\* IGameObject.destroy: IGame().remove_gameobject(self), which hands the
\* object to the controller's remove_gameobject, then exists = False.
\* BaseSystemController removes it from the event system and the collision
\* system; ExtendedSystemController only loops over its extended systems.
\* IGame.remove_gameobject then takes it out of every scene and schedules a
\* cache update of the renderer.
\* A script calls it from scene.update(dt), before the controller's update.
DestroyEffect(gameobject) ==
    /\ IF controller = "base"
       THEN /\ RemoveFromEventSystem(gameobject)
            /\ collision_layers' = RemoveFromLayers(collision_layers, gameobject)
       ELSE UNCHANGED <<containerVars, collision_layers>>
    /\ scene_objs' = [n \in DOMAIN scene_objs |-> SceneRemove(scene_objs[n], gameobject)]
    /\ renderer' = [renderer EXCEPT !.scheduled_update = TRUE, !.dirty = TRUE]
    /\ exists' = [exists EXCEPT ![gameobject] = FALSE]

Destroy(gameobject) ==
    /\ pc = "idle"
    /\ phase \in {"free", "hook1"}
    /\ DestroyEffect(gameobject)
    /\ UNCHANGED <<nativeQ, sysQ, running, controller, drainVars, interractions,
                   colliders, go_scene, active_scene, emitted, frameVars, protoVars,
                   enable_calls, scripts, position, store_phys, sweep, detached, toolVars, lost>>

\* IGame.active_scene = scene, by a script from scene.update(dt)
SetActiveScene(scene) ==
    /\ pc = "idle"
    /\ phase = "hook1"
    /\ active_scene' = scene
    /\ UNCHANGED <<nativeQ, sysQ, containerVars, running, lifeVars, restVars, drainVars,
                   collision_layers, interractions, colliders, go_scene, emitted,
                   frameVars>>

\* a controller that runs no update_system after the solid-collision pass
AfterPhaseSkipSys2 ==
    CASE phase = "hook1" -> "sys1"
      [] phase = "sys1" -> "hook2"
      [] phase = "hook2" -> "hook3"
      [] phase = "hook3" -> "sys3"
      [] phase = "sys3" -> "end"
      [] OTHER -> phase

\* a controller that runs no update_system after the native drain
AfterPhaseSkipSys1 ==
    CASE phase = "hook1" -> "hook2"
      [] phase = "hook2" -> "sys2"
      [] phase = "sys2" -> "hook3"
      [] phase = "hook3" -> "sys3"
      [] phase = "sys3" -> "end"
      [] OTHER -> phase

\* -------------------------------------------------------- the drains
\* BaseSystemController.update: hook(dt) then update_system(dt), for the
\* hooks update, handle_collisions(COLLISION), handle_collisions(TRIGGER)
AfterPhase ==
    CASE phase = "hook1" -> "sys1"
      [] phase = "sys1" -> "hook2"
      [] phase = "hook2" -> "sys2"
      [] phase = "sys2" -> "hook3"
      [] phase = "hook3" -> "sys3"
      [] phase = "sys3" -> "end"
      [] OTHER -> phase

StartDrain(kind, events) ==
    /\ drainKind' = kind
    /\ batch' = events
    /\ bi' = 1
    /\ iterList' = <<>>
    /\ hi' = 1
    /\ calls' = <<>>
    /\ routed' = <<>>
    /\ pc' = IF events = <<>> THEN "done" ELSE "event"

\* a pygame.event.get() that leaves the events it returns in the queue
EventRestKeep(queue) == queue

\* pygame.event.get(): every event of the queue, which is left empty
EventGet(queue) == queue
EventRest(queue) == SubSeq(queue, Len(queue) + 1, Len(queue))

\* EventSystem.update: _eventloop() on pygame.event.get()
Update ==
    /\ pc = "idle"
    /\ phase \in {"free", "hook1"}
    /\ StartDrain("native", EventGet(nativeQ))
    /\ nativeQ' = EventRest(nativeQ)
    /\ phase' = AfterPhase
    /\ UNCHANGED <<sysQ, containerVars, running, lifeVars, restVars, collisionVars, dt>>

\* a get that leaves what it returns in the queue
QueueRestKeep(queue) == queue
\* a get that returns the newest item first
QueueGetReversed(queue) == [i \in 1..Len(queue) |-> queue[Len(queue) + 1 - i]]

\* SystemEventQueue.get: qsize() is read once and that many items are popped
QueueGet(queue) == SubSeq(queue, 1, Len(queue))
QueueRest(queue) == SubSeq(queue, Len(queue) + 1, Len(queue))

\* EventSystem.update_system: _eventloop(SystemEventQueue())
UpdateSystem ==
    /\ pc = "idle"
    /\ phase \in {"free", "sys1", "sys2", "sys3"}
    /\ StartDrain("system", QueueGet(sysQ))
    /\ sysQ' = QueueRest(sysQ)
    /\ phase' = AfterPhase
    /\ UNCHANGED <<nativeQ, containerVars, running, lifeVars, restVars, collisionVars, dt>>

\* the loop of _eventloop moves to the next event, or ends
NextEvent ==
    IF bi < Len(batch)
    THEN /\ bi' = bi + 1
         /\ pc' = "event"
    ELSE /\ bi' = bi
         /\ pc' = "done"

RoutedEntry(status, found) ==
    [status |-> status, bucket |-> found.bucket, key |-> found.key, list |-> found.list]

\* an _eventloop that goes on to the listeners of an event the UI layer
\* has claimed
BeginEventClaimedGoesOn ==
    /\ pc = "event"
    /\ LET event == batch[bi]
           found == GetListeners(event)
       IN  /\ running' = IF event.type = QUIT THEN FALSE ELSE running
           /\ \E claimed \in UIClaims(event) :
                IF ~found.ok
                THEN /\ routed' = Append(routed, RoutedEntry("raised", found))
                     /\ pc' = "raised"
                     /\ UNCHANGED <<bi, iterList, hi>>
                ELSE /\ routed' = Append(routed,
                            RoutedEntry(IF claimed THEN "claimed" ELSE "routed", found))
                     /\ iterList' = found.list
                     /\ hi' = 1
                     /\ IF found.list = <<>>
                        THEN NextEvent
                        ELSE /\ pc' = "hooks"
                             /\ bi' = bi
    /\ UNCHANGED <<nativeQ, sysQ, containerVars, drainKind, batch, calls, collisionVars,
                   frameVars, lifeVars, restVars>>

\* an _eventloop that returns at a quit event, after the call of stop
BeginEventQuitReturns ==
    /\ pc = "event"
    /\ LET event == batch[bi]
           found == GetListeners(event)
       IN  IF event.type = QUIT
           THEN /\ running' = FALSE
                /\ pc' = "done"
                /\ UNCHANGED <<routed, bi, iterList, hi>>
           ELSE /\ running' = running
                /\ \E claimed \in UIClaims(event) :
                     IF claimed
                     THEN /\ routed' = Append(routed, RoutedEntry("claimed", found))
                          /\ NextEvent
                          /\ UNCHANGED <<iterList, hi>>
                     ELSE IF ~found.ok
                     THEN /\ routed' = Append(routed, RoutedEntry("raised", found))
                          /\ pc' = "raised"
                          /\ UNCHANGED <<bi, iterList, hi>>
                     ELSE /\ routed' = Append(routed, RoutedEntry("routed", found))
                          /\ iterList' = found.list
                          /\ hi' = 1
                          /\ IF found.list = <<>>
                             THEN NextEvent
                             ELSE /\ pc' = "hooks"
                                  /\ bi' = bi
    /\ UNCHANGED <<nativeQ, sysQ, containerVars, drainKind, batch, calls, collisionVars,
                   frameVars, lifeVars, restVars>>

\* _eventloop, one event up to the first hook: the quit test, the UI layer,
\* get_listeners
BeginEvent ==
    /\ pc = "event"
    /\ LET event == batch[bi]
           found == GetListeners(event)
       IN  /\ running' = IF event.type = QUIT THEN FALSE ELSE running
           /\ \E claimed \in UIClaims(event) :
                IF claimed
                THEN /\ routed' = Append(routed, RoutedEntry("claimed", found))
                     /\ NextEvent
                     /\ UNCHANGED <<iterList, hi>>
                ELSE IF ~found.ok
                THEN /\ routed' = Append(routed, RoutedEntry("raised", found))
                     /\ pc' = "raised"
                     /\ UNCHANGED <<bi, iterList, hi>>
                ELSE /\ routed' = Append(routed, RoutedEntry("routed", found))
                     /\ iterList' = found.list
                     /\ hi' = 1
                     /\ IF found.list = <<>>
                        THEN NextEvent
                        ELSE /\ pc' = "hooks"
                             /\ bi' = bi
    /\ UNCHANGED <<nativeQ, sysQ, containerVars, drainKind, batch, calls, collisionVars,
                   frameVars, lifeVars, restVars>>

\* what the callable h does to the queues when it is invoked
HookBody(h) ==
    IF HookDef[h].act = "put_sys"
    THEN SendOn(Queues, NOTIFY, <<"o1">>, EmptyDict, TRUE)
    ELSE IF HookDef[h].act = "post_native"
    THEN SendOn(Queues, NOTIFY, <<"o1">>, EmptyDict, FALSE)
    ELSE Queues

\* _eventloop: hook(event) for the next hook of the list
InvokeHook ==
    /\ pc = "hooks"
    /\ LET h == iterList[hi]
       IN  /\ HookDef[h].act # "noop" => Queued < MaxLive
           /\ calls' = Append(calls, [bi |-> bi, hook |-> h])
           /\ SetQueues(HookBody(h))
    /\ IF hi < Len(iterList)
       THEN /\ hi' = hi + 1
            /\ UNCHANGED <<pc, bi>>
       ELSE /\ hi' = hi
            /\ NextEvent
    /\ UNCHANGED <<containerVars, running, lifeVars, restVars, drainKind, batch, iterList, routed,
                   collisionVars, frameVars>>

\* an update_system that does not return while the SystemEventQueue holds
\* an event: it drains again what was put during the drain
ReturnWhenEmpty ==
    /\ pc = "done"
    /\ IF drainKind = "system" /\ sysQ # <<>>
       THEN /\ StartDrain("system", sysQ)
            /\ sysQ' = <<>>
       ELSE /\ pc' = "idle"
            /\ batch' = <<>>
            /\ bi' = 1
            /\ iterList' = <<>>
            /\ hi' = 1
            /\ calls' = <<>>
            /\ routed' = <<>>
            /\ UNCHANGED <<sysQ, drainKind>>
    /\ UNCHANGED <<nativeQ, containerVars, running, lifeVars, restVars, collisionVars, frameVars>>

\* update / update_system returns to its caller; the batch is dropped
Return ==
    /\ pc = "done"
    /\ pc' = "idle"
    /\ batch' = <<>>
    /\ bi' = 1
    /\ iterList' = <<>>
    /\ hi' = 1
    /\ calls' = <<>>
    /\ routed' = <<>>
    /\ UNCHANGED <<nativeQ, sysQ, containerVars, running, lifeVars, restVars, drainKind, collisionVars,
                   frameVars>>

\* ------------------------------------------------- the collision side
\* a collider component is constructed: IColliderComponent.__init__ and
\* __post_init__
CreateCollider(c, layer_list, physics, cells) ==
    /\ phase = "setup"
    /\ c \notin DOMAIN colliders
    /\ colliders' = DictSet(colliders, c,
            [physics |-> physics, cells |-> cells, collision_layers |-> layer_list])
    /\ collision_layers' = AddToLayers(collision_layers, c, layer_list)
    /\ UNCHANGED <<nativeQ, sysQ, containerVars, running, lifeVars, restVars, drainVars, interractions,
                   go_scene, active_scene, emitted, frameVars>>

\* an enable_collision that disables the interaction when it is enabled
EnableCollisionToggle(layer1, layer2) ==
    /\ phase = "setup"
    /\ interractions' = IF {layer1, layer2} \in interractions
                        THEN interractions \ {{layer1, layer2}}
                        ELSE interractions \cup {{layer1, layer2}}
    /\ UNCHANGED <<nativeQ, sysQ, containerVars, running, lifeVars, protoVars, drainVars,
                   collision_layers, colliders, go_scene, active_scene, emitted, frameVars,
                   moreVars>>

\* CollisionSystem.enable_collision
EnableCollision(layer1, layer2) ==
    /\ phase = "setup"
    /\ interractions' = interractions \cup {{layer1, layer2}}
    /\ UNCHANGED <<nativeQ, sysQ, containerVars, running, lifeVars, protoVars, drainVars,
                   collision_layers, colliders, go_scene, active_scene, emitted, frameVars,
                   moreVars>>

\* IGame.run: before_start, then the game loop is entered
StartGame ==
    /\ phase = "setup"
    /\ phase' = "loop"
    /\ active_scene' = "default"
    /\ running' = TRUE
    /\ UNCHANGED <<nativeQ, sysQ, containerVars, drainVars, collision_layers,
                   interractions, colliders, go_scene, emitted, dt, lifeVars, restVars>>

\* a game loop that begins a frame whatever running is
FrameStartAnyway(frame_dt) ==
    /\ phase = "loop"
    /\ dt' = frame_dt
    /\ phase' = "hook1"
    /\ UNCHANGED <<nativeQ, sysQ, containerVars, running, lifeVars, restVars, drainVars, collisionVars>>

\* BaseGame.gameloop: a frame begins, the clock gives its dt
FrameStart(frame_dt) ==
    /\ phase = "loop"
    /\ running
    /\ dt' = frame_dt
    /\ phase' = "hook1"
    /\ UNCHANGED <<nativeQ, sysQ, containerVars, running, lifeVars, restVars, drainVars, collisionVars>>

\* CollisionSystem.handle_collisions(dt, event_type), as the controller's
\* second and third hook
HandleCollisions(event_type, order, first) ==
    /\ pc = "idle"
    /\ phase = (IF event_type = COLLISION THEN "hook2" ELSE "hook3")
    /\ LET evs == PassEvents(event_type, order, dt, first)
       IN  /\ emitted' = evs
           /\ SetQueues(SendAll(Queues, evs))
    /\ phase' = AfterPhase
    /\ UNCHANGED <<containerVars, running, lifeVars, restVars, drainVars, collision_layers, interractions,
                   colliders, go_scene, active_scene, dt>>

\* BaseRenderer.update_cache: the renderables of the objects of the active
\* scene, one per game object
UpdateCache(r) ==
    IF r.cached_scene = active_scene /\ ~r.scheduled_update
    THEN r
    ELSE [r EXCEPT !.cache = scene_objs[active_scene], !.cached_scene = active_scene,
                   !.dirty = FALSE]

\* BaseGame.gameloop: the rest of the frame: renderer.update, uimanager.update,
\* renderer.render (update_cache, then the blits), the UI and the display
FrameEnd ==
    /\ phase = "end"
    /\ pc = "idle"
    /\ phase' = "loop"
    /\ renderer' = UpdateCache(renderer)
    /\ UNCHANGED <<nativeQ, sysQ, containerVars, running, lifeVars, drainVars, collisionVars,
                   dt, protoVars, enable_calls, sceneVars, detached, toolVars, lost>>

\* IGame.run: the game loop has found running false and returned, cleanup
\* runs
Cleanup ==
    /\ phase = "loop"
    /\ pc = "idle"
    /\ ~running
    /\ phase' = "exited"
    /\ UNCHANGED <<nativeQ, sysQ, containerVars, running, lifeVars, restVars, drainVars, collisionVars,
                   dt>>

Next ==
    \/ \E tl \in TargetLists, s \in BOOLEAN : Send(NOTIFY, tl, StaleDict, s)
    \/ \E s \in BOOLEAN : SendNone(NOTIFY, KDict, s)
    \/ BroadcastScene(NOTIFY, "default", KDict, FALSE)
    \/ \E t \in PlatformTypes : PlatformPost(t)
    \/ \E h \in EventHooks : Register(h)
    \/ \E o \in GameObjects : RemoveGameobject(o)
    \/ Update
    \/ UpdateSystem
    \/ BeginEvent
    \/ InvokeHook
    \/ Return

Spec == Init /\ [][Next]_vars

NextGame ==
    \/ \E c \in Colliders, ll \in LayerLists, p \in BOOLEAN :
            \E cs \in CellSets[c] : CreateCollider(c, ll, p, cs)
    \/ \E ls \in EnableArgs : EnableCollision(ls[1], ls[2]) /\ UNCHANGED enable_calls
    \/ StartGame
    \/ \E d \in DTs : FrameStart(d)
    \/ Update
    \/ UpdateSystem
    \/ \E t \in {COLLISION, TRIGGER}, order \in Orders(interractions), first \in Layers :
            HandleCollisions(t, order, first)
    \/ FrameEnd
    \/ BeginEvent
    \/ Return

SpecGame == InitGame /\ [][NextGame]_vars

\* a started game with either controller class: listeners are registered by
\* game objects that exist, objects are removed and destroyed, events are sent
\* and drained
InitLife ==
    /\ InitCommon
    /\ running = TRUE
    /\ controller \in {"base", "extended"}
    /\ go_scene = [o \in GameObjects |-> "default"]
    /\ phase = "free"
    /\ scene_objs = SceneLists(go_scene)

\* the scene names broadcast_scene is called with: "nosuch" is no scene
BroadcastNames == {"default", "nosuch"}

\* the listeners of NOTIFY
LifeHooks == {h \in EventHooks : HookDef[h].type = NOTIFY}

NextLife ==
    \/ Send(NOTIFY, <<"o2", "o1">>, StaleDict, FALSE)
    \/ SendNone(NOTIFY, KDict, FALSE)
    \/ \E n \in BroadcastNames : BroadcastScene(NOTIFY, n, KDict, FALSE)
    \/ \E h \in LifeHooks : exists[Owner(h)] /\ Register(h)
    \/ \E o \in GameObjects : RemoveGameobject(o)
    \/ \E o \in GameObjects : Destroy(o)
    \/ Update
    \/ UpdateSystem
    \/ BeginEvent
    \/ InvokeHook
    \/ Return

SpecLife == InitLife /\ [][NextLife]_vars

\* the routing of the native drain: events for a game object, for a component
\* (a target of no known kind), for a scene, for everybody, and platform input
\* the UI layer may claim; h10 posts a native event when it is invoked
RouteHooks == {"h1", "h5", "h6", "h8", "h9", "h10"}
RouteTargets == {<<"o2">>, <<"k1">>}

NextRoute ==
    \/ \E tl \in RouteTargets : Send(NOTIFY, tl, KDict, FALSE)
    \/ SendNone(NOTIFY, KDict, FALSE)
    \/ \E n \in AllSceneNames : BroadcastScene(NOTIFY, n, KDict, FALSE)
    \/ PlatformPost(INPUT)
    \/ \E h \in RouteHooks : Register(h)
    \/ Update
    \/ BeginEvent
    \/ InvokeHook
    \/ Return

SpecRoute == Init /\ [][NextRoute]_vars

\* the game loop after a setup that calls enable_collision up to MaxEnable
\* times, with any layers in any order, for overlapping colliders of o1 and o2
EnableColliders == {"c1", "c2"}

NextEnable ==
    \/ \E c \in EnableColliders, ll \in LayerLists, p \in BOOLEAN :
            CreateCollider(c, ll, p, {"x1"})
    \/ \E ls \in EnableArgs :
            /\ Len(enable_calls) < MaxEnable
            /\ EnableCollision(ls[1], ls[2])
            /\ enable_calls' = Append(enable_calls, ls)
    \/ StartGame
    \/ FrameStart("dt1")
    \/ Update
    \/ UpdateSystem
    \/ \E t \in {COLLISION, TRIGGER}, order \in Orders(interractions), first \in Layers :
            HandleCollisions(t, order, first)
    \/ FrameEnd
    \/ BeginEvent
    \/ Return

SpecEnable == InitGame /\ [][NextEnable]_vars

\* a game run from setup to cleanup: the script k1 of o1 listens to NOTIFY
\* and puts a system event each time it is invoked, o2 listens to the quit
\* event; before the controller's update of a frame a script may send a system
\* event to o1 and the platform may queue a quit event
RunHooks == {"h2", "h7"}

\* the steps the program takes by itself: the drains, the passes, the end of
\* the frame, the exit of the loop
RunProgram ==
    \/ Update
    \/ UpdateSystem
    \/ \E t \in {COLLISION, TRIGGER}, order \in Orders(interractions), first \in Layers :
            HandleCollisions(t, order, first)
    \/ FrameEnd
    \/ BeginEvent
    \/ InvokeHook
    \/ Return
    \/ Cleanup

NextRun ==
    \/ \E h \in RunHooks : Register(h)
    \/ StartGame
    \/ \E d \in DTs : FrameStart(d)
    \/ Send(NOTIFY, <<"o1">>, KDict, TRUE)
    \/ PlatformPost(QUIT)
    \/ RunProgram

SpecRun == InitGame /\ [][NextRun]_vars

\* the program is single threaded and every call returns: a step of the
\* program that can be taken is taken
SpecRunFair == SpecRun /\ WF_vars(RunProgram)

\* the game loop with overlapping colliders on one layer each, scripts that
\* destroy a game object or switch the scene before the controller's update
SceneLayerLists == {<<"L1">>, <<"L2">>}

NextScene ==
    \/ \E c \in Colliders, ll \in SceneLayerLists, p \in BOOLEAN :
            CreateCollider(c, ll, p, {"x1"})
    \/ \E ls \in EnableArgs : EnableCollision(ls[1], ls[2]) /\ UNCHANGED enable_calls
    \/ StartGame
    \/ FrameStart("dt1")
    \/ \E o \in GameObjects : Destroy(o)
    \/ \E n \in AllSceneNames : SetActiveScene(n)
    \/ Update
    \/ UpdateSystem
    \/ \E t \in {COLLISION, TRIGGER}, order \in Orders(interractions), first \in Layers :
            HandleCollisions(t, order, first)
    \/ FrameEnd
    \/ BeginEvent
    \/ Return

SpecScene == InitGame /\ [][NextScene]_vars

\* =================================================== the claims
\* the hooks invoked for the k-th event of the batch, in the order of the calls
CallHooks(k) ==
    LET own == SelectSeq(calls, LAMBDA c : c.bi = k)
    IN  [i \in 1..Len(own) |-> own[i].hook]

IsPrefix(s, t) == Len(s) <= Len(t) /\ SubSeq(t, 1, Len(s)) = s

\* s holds elements of t only, each at most once, in the order t has them
\* (t has no element twice)
IsSubseqOf(s, t) ==
    /\ \A i \in 1..Len(s) : \E j \in 1..Len(t) : t[j] = s[i]
    /\ \A i, j \in 1..Len(s) : i < j =>
            \E a, b \in 1..Len(t) : a < b /\ t[a] = s[i] /\ t[b] = s[j]

\* the event at place k of the list events came from a send with a target
\* list and system = False
FromNativeSend(events, k) ==
    events[k].src.kind = "send" /\ ~events[k].src.system

\* what C1 says of the event at place k of events: it is the event of its
\* target, the payload is the caller's plus listener, the events of the
\* other targets of the send are around it in order, no other event has its dict
OwnEvent(events, k) ==
    LET e == events[k]
        targets == e.src.targets
        data == e.src.data
    IN  /\ e.type = e.src.type
        /\ e.idx \in 1..Len(targets)
        /\ DOMAIN e.dict = DOMAIN data \cup {"listener"}
        /\ \A x \in DOMAIN data \ {"listener"} : e.dict[x] = data[x]
        /\ e.dict["listener"] = targets[e.idx]
        /\ \A j \in 1..Len(targets) :
                /\ k - e.idx + j \in 1..Len(events)
                /\ events[k - e.idx + j].src = e.src
                /\ events[k - e.idx + j].idx = j
        /\ \A k2 \in 1..Len(events) : k2 # k => events[k2].did # e.did

\* the listeners the container holds for a target of a send
ListenersOfTarget(event_type, target) ==
    IF target \in GameObjects THEN DictGet(listeners[event_type], target, <<>>)
    ELSE IF target \in SceneObjs
    THEN DictGet(broadcast_listeners[event_type], SceneName[target], <<>>)
    ELSE DictGet(broadcast_listeners[event_type], NoneV, <<>>)

C2_QueueBySystemFlag ==
    /\ \A k \in 1..Len(nativeQ) : nativeQ[k].src.kind = "send" => ~nativeQ[k].src.system
    /\ \A k \in 1..Len(sysQ) : sysQ[k].src.kind = "send" /\ sysQ[k].src.system
    /\ pc # "idle" =>
            \A k \in 1..Len(batch) :
                IF drainKind = "native"
                THEN batch[k].src.kind = "send" => ~batch[k].src.system
                ELSE batch[k].src.kind = "send" /\ batch[k].src.system
    /\ \A i \in 1..Len(calls) : calls[i].bi \in 1..Len(batch)

\* an update_system has invoked a hook for a system = True event while an
\* event of a system = False send waits in the native queue
C2_Witness ==
    /\ pc = "done"
    /\ drainKind = "system"
    /\ calls # <<>>
    /\ batch[1].src.system
    /\ nativeQ # <<>>
    /\ nativeQ[1].src.kind = "send"
    /\ ~nativeQ[1].src.system

\* the call of hook h for event e is one the routing of C3 allows: h was
\* registered for e's type, in the bucket and under the key e's target selects
RightfulCall(e, h) ==
    LET l == DefinedListener(e)
    IN  /\ HookDef[h].type = e.type
        /\ IF l = NoneV
           THEN HookDef[h].scope = "broadcast" /\ HookDef[h].key = NoneV
           ELSE IF l \in SceneObjs
           THEN HookDef[h].scope = "broadcast" /\ HookDef[h].key = SceneName[l]
           ELSE /\ l \in GameObjects
                /\ HookDef[h].scope = "local"
                /\ NormKey(h) = l

RegisteredFor(e) ==
    LET l == DefinedListener(e)
    IN  IF l = NoneV THEN DictGet(registered["broadcast"][e.type], NoneV, <<>>)
        ELSE IF l \in SceneObjs
        THEN DictGet(registered["broadcast"][e.type], SceneName[l], <<>>)
        ELSE DictGet(registered["local"][e.type], l, <<>>)

\* C4, as the specification states it: when a drain is over, an event
\* targeted at a game object o has invoked every callable registered through
\* register_event_hook for (type, o), by o or by a component whose source is
\* o, and not removed since: each once, in registration order.
C4_RegistrationsCoexist ==
    pc = "done" =>
        \A k \in 1..Len(batch) :
            (routed[k].status = "routed" /\ DefinedListener(batch[k]) \in GameObjects) =>
                CallHooks(k) = RegisteredFor(batch[k])

\* C5: an update_system call takes as its batch exactly the content of the
\* SystemEventQueue at the call and leaves the queue empty; while the call
\* runs the batch does not change and the queue only grows at its end, so an
\* event a listener puts stays queued for the next call; and when the call is
\* over every event of the batch has been dispatched once.
C5_SystemDrainSnapshot ==
    /\ []((pc = "done" /\ drainKind = "system") => Len(routed) = Len(batch))
    /\ [][/\ (pc = "idle" /\ pc' # "idle" /\ drainKind' = "system") =>
                (batch' = sysQ /\ sysQ' = <<>>)
          /\ (pc # "idle" /\ drainKind = "system") =>
                (IsPrefix(sysQ, sysQ') /\ (pc' # "idle" => batch' = batch))]_vars

\* an update_system is over, h2 was invoked in it, and the system event h2
\* put is in the queue
C5_Witness ==
    /\ pc = "done"
    /\ drainKind = "system"
    /\ \E i \in 1..Len(calls) : calls[i].hook = "h2"
    /\ sysQ # <<>>
    /\ sysQ[Len(sysQ)].src.targets = <<"o1">>

\* C6: a drain takes its batch in the order of the queue, and a queue grows
\* at its end only (FIFO); the hooks are invoked event after event in the
\* order of the batch, all the hooks of an event before any of the next; and
\* the hooks of one event are invoked in the order they were registered in.
C6_DrainOrder ==
    /\ [](/\ \A i, j \in 1..Len(calls) : i < j => calls[i].bi <= calls[j].bi
          /\ \A i \in 1..Len(calls) : calls[i].bi <= bi
          /\ (pc \in {"hooks", "done"} /\ batch # <<>>) => Len(routed) = bi
          /\ \A k \in 1..Len(batch) : IsSubseqOf(CallHooks(k), RegisteredFor(batch[k])))
    /\ [][/\ (pc = "idle" /\ pc' # "idle") =>
                batch' = (IF drainKind' = "native" THEN nativeQ ELSE sysQ)
          /\ ~(pc = "idle" /\ pc' # "idle" /\ drainKind' = "native") =>
                IsPrefix(nativeQ, nativeQ')
          /\ ~(pc = "idle" /\ pc' # "idle" /\ drainKind' = "system") =>
                IsPrefix(sysQ, sysQ')]_vars

\* a drain of two events is over: for each of them h2 then h1 were invoked,
\* the order they were registered in
C6_Witness ==
    /\ pc = "done"
    /\ Len(batch) = 2
    /\ CallHooks(1) = <<"h2", "h1">>
    /\ CallHooks(2) = <<"h2", "h1">>
    /\ RegisteredFor(batch[1]) = <<"h2", "h1">>

\* ------------------------------------------- the collision passes
\* a pass has just run: the controller is between handle_collisions and the
\* update_system that follows it
PassDone == pc = "idle" /\ phase \in {"sys2", "sys3"}
\* the event type of the pass that has just run
PassType == IF phase = "sys2" THEN COLLISION ELSE TRIGGER
\* the queue the events of the pass were sent to
PassQueue == IF IsPhysics(PassType) THEN sysQ ELSE nativeQ

\* the layers collider c was constructed with
InLayer(c, layer) == layer \in SeqToSet(colliders[c].collision_layers)

\* a and b are colliders a pass of event_type looks at, and their masks overlap
Overlapping(a, b, event_type) ==
    /\ a \in DOMAIN colliders
    /\ b \in DOMAIN colliders
    /\ colliders[a].physics = IsPhysics(event_type)
    /\ colliders[b].physics = IsPhysics(event_type)
    /\ go_scene[ColliderSource[a]] = active_scene
    /\ go_scene[ColliderSource[b]] = active_scene
    /\ colliders[a].cells \cap colliders[b].cells # {}

\* a and b are colliders of the interaction: both of its layer when it is a
\* self-pair, a of one of its two layers and b of the other when it is not
Placed(inter, a, b) ==
    IF Cardinality(inter) = 1
    THEN \A l \in inter : InLayer(a, l) /\ InLayer(b, l)
    ELSE \E x, y \in inter : x # y /\ InLayer(a, x) /\ InLayer(b, y)

Qualifies(inter, a, b, event_type) ==
    /\ Overlapping(a, b, event_type)
    /\ Placed(inter, a, b)
    /\ ColliderSource[a] # ColliderSource[b]

\* how many events of the pass the interaction made for a, about b
EmittedFor(inter, a, b) ==
    Cardinality({i \in 1..Len(emitted) :
                    emitted[i].inter = inter /\ emitted[i].a = a /\ emitted[i].b = b})

\* C7: when a pass has run, for every enabled interaction and all colliders
\* a, b of it (a of one layer and b of the other, or both of the layer of a
\* self-pair) with the physics flag of the pass, owners in the active scene,
\* overlapping masks and different owners, the queue of the pass holds an
\* event of the pass's type targeted at a's owner, with collides = b's owner
\* and dt = the dt of the frame.
C7_QualifyingPairNotified ==
    PassDone =>
        \A inter \in interractions : \A a, b \in DOMAIN colliders :
            Qualifies(inter, a, b, PassType) =>
                \E k \in 1..Len(PassQueue) :
                    /\ PassQueue[k].type = PassType
                    /\ PassQueue[k].dict["listener"] = ColliderSource[a]
                    /\ PassQueue[k].dict["collides"] = ColliderSource[b]
                    /\ PassQueue[k].dict["dt"] = dt

\* a COLLISION pass of a frame with dt2 has run with the interaction {L1, L2}
\* enabled, c2 (of o2) in L2 only, c1 (of o1) in L1 only, the two overlapping
C7_Witness ==
    /\ PassDone
    /\ PassType = COLLISION
    /\ dt = "dt2"
    /\ {"L1", "L2"} \in interractions
    /\ Qualifies({"L1", "L2"}, "c2", "c1", COLLISION)
    /\ colliders["c1"].collision_layers = <<"L1">>
    /\ colliders["c2"].collision_layers = <<"L2">>

\* C8, as the specification states it: when a pass has run, an interaction
\* between two distinct layers has made, for each overlapping pair a (one
\* layer) and b (the other) with different owners, the physics flag of the
\* pass and the active scene, exactly one event targeted at a's owner about b
\* and exactly one targeted at b's owner about a, whatever other layers a and
\* b belong to.
C8_ExactlyTwoEvents ==
    PassDone =>
        \A inter \in interractions : \A a, b \in DOMAIN colliders :
            (Cardinality(inter) = 2 /\ Qualifies(inter, a, b, PassType)) =>
                /\ EmittedFor(inter, a, b) = 1
                /\ EmittedFor(inter, b, a) = 1

\* C9, as the specification states it: a self-pair interaction that made the
\* event for (a, b) in a pass never makes the event for (b, a) in that pass.
C9_NoMirroredEvent ==
    \A i, j \in 1..Len(emitted) :
        (Cardinality(emitted[i].inter) = 1 /\ emitted[j].inter = emitted[i].inter) =>
            ~(emitted[j].a = emitted[i].b /\ emitted[j].b = emitted[i].a)

\* C9, amended: in a self-pair interaction every ordered pair (a, b) of
\* overlapping colliders of the layer with different owners, the physics flag
\* of the pass and the active scene gets exactly one event, targeted at a's
\* owner about b: the event for (b, a) is the one its own pair gets, and the
\* second send of the loop (the mirrored one) is never made.
C9_SelfPairOncePerOrderedPair ==
    /\ \A i \in 1..Len(emitted) : Cardinality(emitted[i].inter) = 1 => ~emitted[i].mirror
    /\ PassDone =>
            \A inter \in interractions : \A a, b \in DOMAIN colliders :
                (Cardinality(inter) = 1 /\ Qualifies(inter, a, b, PassType)) =>
                    EmittedFor(inter, a, b) = 1

\* a pass has run with the self-pair {L1} enabled and c1, c2 overlapping in
\* L1: it made the event for (c1, c2) and the event for (c2, c1)
C9_Witness ==
    /\ PassDone
    /\ {"L1"} \in interractions
    /\ Qualifies({"L1"}, "c1", "c2", PassType)
    /\ EmittedFor({"L1"}, "c1", "c2") = 1
    /\ EmittedFor({"L1"}, "c2", "c1") = 1

\* the event is one a pass sent
IsCollisionEvent(e) == e.type \in {COLLISION, TRIGGER}

\* C10: no pass makes an event for two colliders of the same game object (a
\* collider with itself included): no event of a pass, queued or in
\* dispatch, is targeted at the game object it names in collides.
C10_SameOwnerNoEvent ==
    /\ \A i \in 1..Len(emitted) :
            ColliderSource[emitted[i].a] # ColliderSource[emitted[i].b]
    /\ \A k \in 1..Len(sysQ) :
            IsCollisionEvent(sysQ[k]) => sysQ[k].dict["listener"] # sysQ[k].dict["collides"]
    /\ \A k \in 1..Len(nativeQ) :
            IsCollisionEvent(nativeQ[k]) =>
                nativeQ[k].dict["listener"] # nativeQ[k].dict["collides"]
    /\ \A k \in 1..Len(batch) :
            IsCollisionEvent(batch[k]) => batch[k].dict["listener"] # batch[k].dict["collides"]

\* a pass has run with c1 and c3, both of o1, overlapping in the layer of an
\* enabled self-pair (each is also paired with itself there), and it made
\* events for other pairs
C10_Witness ==
    /\ PassDone
    /\ emitted # <<>>
    /\ \E inter \in interractions :
            /\ Cardinality(inter) = 1
            /\ Overlapping("c1", "c3", PassType)
            /\ Placed(inter, "c1", "c3")

\* ------------------------------------------------ the frame schedule
\* the events of the pass that ran last are the last ones of queue, in order
PassEventsAtEndOf(queue) ==
    /\ Len(queue) >= Len(emitted)
    /\ \A i \in 1..Len(emitted) :
            LET e == queue[Len(queue) - Len(emitted) + i]
            IN  /\ e.type = emitted[i].type
                /\ e.dict["listener"] = emitted[i].target
                /\ e.dict["collides"] = emitted[i].collides

\* C11: every event of a pass is sent with system = the physics boolean of
\* the pass: the events of the COLLISION pass are in the SystemEventQueue (or
\* in the batch of an update_system), never in the native queue or in the
\* batch of an update; those of the TRIGGER pass are in the native queue (or
\* in the batch of an update), never in the SystemEventQueue.
C11_SystemFlagIsPhysics ==
    /\ \A i \in 1..Len(emitted) : emitted[i].system = (emitted[i].type = COLLISION)
    /\ \A k \in 1..Len(nativeQ) : nativeQ[k].type # COLLISION
    /\ \A k \in 1..Len(sysQ) : sysQ[k].type # TRIGGER
    /\ pc # "idle" =>
            \A k \in 1..Len(batch) :
                batch[k].type # (IF drainKind = "native" THEN COLLISION ELSE TRIGGER)
    /\ PassDone => PassEventsAtEndOf(PassQueue)

\* the TRIGGER pass of a frame has run and its events are in the native
\* queue, while the SystemEventQueue is empty
C11_Witness ==
    /\ PassDone
    /\ PassType = TRIGGER
    /\ emitted # <<>>
    /\ nativeQ # <<>>
    /\ sysQ = <<>>

\* C12: the native drain of a frame dispatches no event of the COLLISION
\* pass; the update_system that follows the pass takes every system event the
\* pass sent and dispatches each, in the same frame; outside the time between
\* the pass and that update_system the SystemEventQueue holds no COLLISION
\* event, so none is queued when the next frame begins.
C12_SystemEventsSameFrame ==
    /\ [](/\ (pc # "idle" /\ drainKind = "native") =>
                \A k \in 1..Len(batch) : batch[k].type # COLLISION
          /\ phase # "sys2" => \A k \in 1..Len(sysQ) : sysQ[k].type # COLLISION
          /\ (phase = "hook3" /\ pc = "done") => Len(routed) = Len(batch))
    /\ [][(phase = "sys2" /\ phase' # "sys2") =>
                (phase' = "hook3" /\ drainKind' = "system" /\ batch' = sysQ)]_vars

\* the update_system that follows the COLLISION pass of a frame is over and
\* has dispatched the events of the pass
C12_Witness ==
    /\ phase = "hook3"
    /\ pc = "done"
    /\ drainKind = "system"
    /\ batch # <<>>
    /\ batch[1].type = COLLISION
    /\ PassEventsAtEndOf(batch)

EmittedOfType(event_type) == \A i \in 1..Len(emitted) : emitted[i].type = event_type

\* C14: a frame of the controller goes through one schedule: the native
\* drain (update), an update_system, the COLLISION pass, an update_system, the
\* TRIGGER pass, an update_system; a drain or a pass runs at its place of the
\* schedule only.
C14_FrameSchedule ==
    [][/\ phase' # phase =>
            \/ phase = "setup" /\ phase' = "loop"
            \/ phase = "loop" /\ phase' = "hook1"
            \/ phase = "hook1" /\ phase' = "sys1" /\ drainKind' = "native" /\ batch' = nativeQ
            \/ phase = "sys1" /\ phase' = "hook2" /\ drainKind' = "system" /\ batch' = sysQ
            \/ phase = "hook2" /\ phase' = "sys2" /\ pc' = "idle"
            \/ phase = "sys2" /\ phase' = "hook3" /\ drainKind' = "system" /\ batch' = sysQ
            \/ phase = "hook3" /\ phase' = "sys3" /\ pc' = "idle"
            \/ phase = "sys3" /\ phase' = "end" /\ drainKind' = "system" /\ batch' = sysQ
            \/ phase = "end" /\ phase' = "loop"
       /\ (pc = "idle" /\ pc' # "idle") => phase \in {"hook1", "sys1", "sys2", "sys3"}
       /\ emitted' # emitted =>
            \/ phase = "hook2" /\ EmittedOfType(COLLISION)'
            \/ phase = "hook3" /\ EmittedOfType(TRIGGER)']_vars

\* the last update_system of a frame is over, after a TRIGGER pass that sent
\* events
C14_Witness ==
    /\ phase = "end"
    /\ pc = "done"
    /\ drainKind = "system"
    /\ emitted # <<>>
    /\ EmittedOfType(TRIGGER)

\* ------------------------------------------------ removal of game objects
\* the k-th event of the batch is targeted at the game object o and was routed
DispatchedTo(k, o) ==
    /\ k <= Len(routed)
    /\ routed[k].status = "routed"
    /\ DefinedListener(batch[k]) = o

\* C15: while a drain runs and when it is over, an event of its batch that is
\* targeted at a game object o has invoked no listener if, when the drain
\* began, EventSystem.remove_gameobject(o) had been called and no listener
\* had been registered for o since: that is, if no registration for o and the
\* event's type is left, or if o was destroyed under BaseSystemController.
\* It does not matter whether the event was queued before or after the removal.
C15_RemovedObjectGetsNothing ==
    pc # "idle" =>
        \A k \in 1..Len(routed) : \A o \in GameObjects :
            (/\ DispatchedTo(k, o)
             /\ \/ o \notin DOMAIN registered["local"][batch[k].type]
                \/ controller = "base" /\ ~exists[o]) =>
                CallHooks(k) = <<>>

\* o2 was destroyed under BaseSystemController after its scene listener h6
\* had been registered (the scene's list is left, empty); a drain dispatched
\* an event targeted at o2 to nobody and the event for o1 of the same send to
\* a listener
C15_Witness ==
    /\ controller = "base"
    /\ ~exists["o2"]
    /\ pc = "done"
    /\ "default" \in DOMAIN broadcast_listeners[NOTIFY]
    /\ broadcast_listeners[NOTIFY]["default"] = <<>>
    /\ Len(batch) = 2
    /\ DispatchedTo(1, "o2")
    /\ CallHooks(1) = <<>>
    /\ DispatchedTo(2, "o1")
    /\ CallHooks(2) # <<>>

\* C16, as the specification states it: once remove_gameobject(o) has run
\* (here through o.destroy() under BaseSystemController, no listener being
\* registered for o afterwards), no event invokes a callable that was
\* registered for o, by o itself or by one of its scripts and components, in
\* any scope.
C16_RegisterRemoveRoundTrip ==
    (controller = "base" /\ pc # "idle") =>
        \A i \in 1..Len(calls) : exists[Owner(calls[i].hook)]

\* the colliders a and b were built so that a pass of event_type would test
\* them for the interaction inter and find them overlapping, were both in
\* the layers and in the active scene
BuiltToMeet(inter, a, b, event_type) ==
    /\ inter \in interractions
    /\ a \in DOMAIN colliders
    /\ b \in DOMAIN colliders
    /\ colliders[a].physics = IsPhysics(event_type)
    /\ colliders[b].physics = IsPhysics(event_type)
    /\ colliders[a].cells \cap colliders[b].cells # {}
    /\ Placed(inter, a, b)
    /\ ColliderSource[a] # ColliderSource[b]

\* the colliders of list whose source is not the game object o
NotOwnedBy(list, o) == SelectSeq(list, LAMBDA c : ColliderSource[c] # o)

\* C17: the step that destroys a game object o (BaseSystemController hands it
\* to CollisionSystem.remove_gameobject) leaves in every layer the colliders
\* of the other owners, in the order they had, and no collider of o; from
\* then on no layer holds a collider of o, and every pass that runs emits no
\* event that targets o or names o as collides.
C17_RemovedFromAllLayers ==
    /\ [](\A o \in GameObjects : ~exists[o] =>
            \A layer \in DOMAIN collision_layers :
                \A i \in 1..Len(collision_layers[layer]) :
                    ColliderSource[collision_layers[layer][i]] # o)
    /\ [][/\ \A o \in GameObjects : (exists[o] /\ ~exists'[o]) =>
                /\ DOMAIN collision_layers' = DOMAIN collision_layers
                /\ \A layer \in DOMAIN collision_layers :
                        collision_layers'[layer] = NotOwnedBy(collision_layers[layer], o)
          /\ (phase \in {"hook2", "hook3"} /\ phase' # phase) =>
                \A i \in 1..Len(emitted') :
                    exists[emitted'[i].target] /\ exists[emitted'[i].collides]]_vars

\* o2 was destroyed; its collider c2 was built to meet c1 of o1 in the pass
\* that has just run, which emitted nothing; c1 is still in its layer
C17_Witness ==
    /\ PassDone
    /\ ~exists["o2"]
    /\ exists["o1"]
    /\ \E inter \in interractions : BuiltToMeet(inter, "c1", "c2", PassType)
    /\ go_scene["o2"] = active_scene
    /\ go_scene["o1"] = active_scene
    /\ \E layer \in DOMAIN collision_layers :
            "c1" \in SeqToSet(collision_layers[layer])
    /\ emitted = <<>>

\* C18, as the specification states it: under either controller class a
\* destroyed game object has no list of local listeners left and no
\* broadcast list holds a callable whose receiver it is.
C18_DestroyPurgesListeners ==
    \A o \in GameObjects : ~exists[o] =>
        \A t \in Types :
            /\ o \notin DOMAIN listeners[t]
            /\ \A key \in DOMAIN broadcast_listeners[t] :
                    \A i \in 1..Len(broadcast_listeners[t][key]) :
                        HookDef[broadcast_listeners[t][key][i]].recv # o

\* C19: when a pass has run, every event of it targets a game object of
\* the active scene and names one as collides: a collider whose owner is in
\* another scene is in no event of the pass, whichever scene was made active
\* before the pass.
C19_InactiveSceneExcluded ==
    PassDone =>
        \A i \in 1..Len(emitted) :
            /\ go_scene[emitted[i].target] = active_scene
            /\ go_scene[emitted[i].collides] = active_scene

\* a script made "other" the active scene; c1 of o1, in scene "default", was
\* built to meet c2 of o2, in scene "other", in the pass that has just run,
\* and the pass emitted nothing
C19_Witness ==
    /\ PassDone
    /\ active_scene = "other"
    /\ go_scene["o1"] = "default"
    /\ go_scene["o2"] = "other"
    /\ exists["o1"]
    /\ exists["o2"]
    /\ \E inter \in interractions : BuiltToMeet(inter, "c1", "c2", PassType)
    /\ emitted = <<>>

\* C20, as the specification states it: no event comes from a
\* broadcast_scene call with the name of no scene, which is send with the
\* target list [None]: none is queued, none is in the batch of a drain.
C20_UnknownSceneSendsNothing ==
    \A e \in LiveEvents(Queues) : ~(e.src.kind = "send" /\ e.src.targets = <<NoneV>>)

\* ------------------------------------------------ routing of the drains
\* the event came from send with targets None
FromSendNone(e) == e.src.kind = "broadcast"

KeyScene(h) == IF HookDef[h].key \in SceneObjs THEN SceneName[HookDef[h].key]
               ELSE HookDef[h].key

\* how many times the callable h was invoked for the k-th event of the batch
TimesCalled(k, h) ==
    Cardinality({i \in 1..Len(calls) : calls[i].bi = k /\ calls[i].hook = h})

\* C21, as the specification states it: when a drain is over, a callable
\* registered through register_broadcast_hook for a scene, by its name (as
\* the registration protocol gives it) or by the scene object, was invoked
\* once for every event of the batch that was a broadcast to that scene, and
\* for no other event.
C21_SceneListenerInvoked ==
    pc = "done" =>
        \A k \in 1..Len(batch) : \A h \in Hooks :
            (/\ IsRegistered(h)
             /\ HookDef[h].scope = "broadcast"
             /\ HookDef[h].key # NoneV
             /\ routed[k].status = "routed") =>
                TimesCalled(k, h) =
                    (IF /\ DefinedListener(batch[k]) \in SceneObjs
                        /\ SceneName[DefinedListener(batch[k])] = KeyScene(h)
                        /\ batch[k].type = HookDef[h].type
                     THEN 1 ELSE 0)

\* the event's routing target is neither None, a scene nor a game object
BadTarget(e) == DefinedListener(e) \notin ({NoneV} \cup SceneObjs \cup GameObjects)

\* C23: get_listeners raises for an event, which the UI layer has not
\* claimed, with a routing target that is neither None, a scene nor a game
\* object, and for no other event: the drain stops at that event, no
\* listener was invoked for it, and no later event of the batch is looked at.
C23_UnknownTargetRaises ==
    pc # "idle" =>
        /\ \A k \in 1..Len(routed) :
                /\ (BadTarget(batch[k]) /\ routed[k].status # "claimed") <=>
                        routed[k].status = "raised"
                /\ routed[k].status = "raised" =>
                        (pc = "raised" /\ k = Len(routed) /\ bi = k /\ CallHooks(k) = <<>>)
        /\ pc = "raised" => (routed # <<>> /\ routed[Len(routed)].status = "raised")

\* the drain raised at an event targeted at the component k1 that came
\* second in its batch; the global broadcast listener h5 is registered and
\* was invoked for the first event only
C23_Witness ==
    /\ pc = "raised"
    /\ Len(batch) = 2
    /\ bi = 2
    /\ DefinedListener(batch[2]) = "k1"
    /\ ReadListener(NOTIFY, broadcast_listeners, NoneV) = <<"h5">>
    /\ calls = <<[bi |-> 1, hook |-> "h5"]>>

\* C24: an event the UI layer claims invokes no listener; when the drain is
\* over every other event of the batch was routed and has invoked the
\* listeners get_listeners gave for it, each once and in order, whatever
\* events were claimed before or after it.
C24_ClaimedEventSkipped ==
    pc # "idle" =>
        \A k \in 1..Len(routed) :
            /\ routed[k].status = "claimed" => CallHooks(k) = <<>>
            /\ (routed[k].status = "routed" /\ (pc = "done" \/ k < bi)) =>
                    CallHooks(k) = routed[k].list

\* a drain is over: the UI layer claimed the input event that came first,
\* for which the global listener h9 is registered, and the event after it
\* went to its listener
C24_Witness ==
    /\ pc = "done"
    /\ Len(batch) = 2
    /\ batch[1].type = INPUT
    /\ routed[1].status = "claimed"
    /\ ReadListener(INPUT, broadcast_listeners, NoneV) = <<"h9">>
    /\ CallHooks(1) = <<>>
    /\ routed[2].status = "routed"
    /\ CallHooks(2) # <<>>

\* C30: update takes as its batch the events the native queue holds at the
\* call and leaves the queue empty; while it runs the batch does not change
\* and the native queue only grows at its end, so an event a listener posts
\* is not dispatched by this update; it waits in the queue and is in the
\* batch of the next update.
C30_NativePostDeferred ==
    /\ []((pc = "done" /\ drainKind = "native") => Len(routed) = Len(batch))
    /\ [][/\ (pc = "idle" /\ pc' # "idle" /\ drainKind' = "native") =>
                (batch' = nativeQ /\ nativeQ' = <<>>)
          /\ (pc # "idle" /\ drainKind = "native") =>
                (IsPrefix(nativeQ, nativeQ') /\ (pc' # "idle" => batch' = batch))]_vars

\* the event came from the send of the listener h10
FromHook(e) == e.src.kind = "send" /\ e.src.data = EmptyDict

\* an update is over: it dispatched to h1 an event h10 posted during an
\* earlier update, then an event for o2 to h10, whose new event waits in the
\* native queue
C30_Witness ==
    /\ pc = "done"
    /\ drainKind = "native"
    /\ Len(batch) = 2
    /\ FromHook(batch[1])
    /\ ~FromHook(batch[2])
    /\ calls = <<[bi |-> 1, hook |-> "h1"], [bi |-> 2, hook |-> "h10"]>>
    /\ Len(nativeQ) = 1
    /\ FromHook(nativeQ[1])

\* ------------------------------------------------ the run of the game
\* C25: the step of a drain that takes a quit event calls stop: running is
\* false after it; once the game has started, running stays false when it is
\* false; the loop begins a frame only when running is true; and when running
\* is false the frame under way ends, the loop exits and cleanup runs.
C25_QuitStopsTheLoop ==
    /\ [][/\ (pc = "event" /\ Len(routed') > Len(routed) /\ batch[bi].type = QUIT) =>
                ~running'
          /\ (phase # "setup" /\ ~running) => ~running'
          /\ (phase = "loop" /\ phase' = "hook1") => running]_vars
    /\ (phase # "setup" /\ ~running) ~> (phase = "exited")

\* the loop has exited and cleanup has run, after a quit event stopped the
\* game
C25_Witness ==
    /\ phase = "exited"
    /\ ~running
    /\ pc = "idle"

\* C26: an update_system takes the events the SystemEventQueue holds at the
\* call, dispatches at most that many, each once, and returns, also when a
\* listener puts a new system event at every invocation; the controller's
\* update of a frame, three such drains, comes to its end.
C26_SystemDrainTerminates ==
    /\ [](/\ (pc # "idle" /\ drainKind = "system") => Len(routed) <= Len(batch)
          /\ (pc = "done" /\ drainKind = "system") => Len(routed) = Len(batch))
    /\ [][(pc = "idle" /\ pc' # "idle" /\ drainKind' = "system") =>
                (batch' = sysQ /\ sysQ' = <<>>)]_vars
    /\ (pc # "idle" /\ drainKind = "system") ~> (pc = "idle")
    /\ (phase = "hook1") ~> (phase = "loop")

\* the last update_system of a frame is over: it dispatched the one event the
\* queue held to h2, and the event h2 put waits in the queue
C26_Witness ==
    /\ phase = "end"
    /\ pc = "done"
    /\ drainKind = "system"
    /\ Len(batch) = 1
    /\ FromHook(batch[1])
    /\ calls = <<[bi |-> 1, hook |-> "h2"]>>
    /\ Len(sysQ) = 1
    /\ FromHook(sysQ[1])

\* ------------------------------------------------ enable_collision
\* C29: the interaction set is the set of the unordered layer pairs of the
\* enable_collision calls made, however often and in whichever order of the
\* two layers each was made; a pass walks each interaction once: no two
\* events of a pass come from the same test of the same interaction.
C29_EnableIdempotent ==
    /\ interractions = {{enable_calls[i][1], enable_calls[i][2]} : i \in 1..Len(enable_calls)}
    /\ PassDone =>
            /\ \A i \in 1..Len(emitted) : emitted[i].inter \in interractions
            /\ \A i, j \in 1..Len(emitted) :
                    (/\ emitted[i].inter = emitted[j].inter
                     /\ emitted[i].a = emitted[j].a
                     /\ emitted[i].b = emitted[j].b
                     /\ emitted[i].mirror = emitted[j].mirror) => i = j

\* enable_collision was called twice with (L1, L2) and once with (L2, L1):
\* the set holds the one interaction, and the pass that has just run emitted
\* the two events of one test
C29_Witness ==
    /\ PassDone
    /\ enable_calls = <<<<"L1", "L2">>, <<"L1", "L2">>, <<"L2", "L1">>>>
    /\ interractions = {{"L1", "L2"}}
    /\ Len(emitted) = 2

\* ------------------------------------------- EventListener protocol
\* Scope
Scope_LOCAL == "LOCAL"
Scope_BROADCAST_SCENE == "BROADCAST_SCENE"
Scope_BROADCAST == "BROADCAST"

\* what @listen(event_type=..., scope=...) appends for a decorated method:
\* (event_type, scope, fn.__name__)
ListenTags ==
    {<<NOTIFY, Scope_LOCAL, "m">>, <<NOTIFY, Scope_BROADCAST_SCENE, "m">>,
     <<NOTIFY, Scope_BROADCAST, "n">>}

\* the decorated methods of one class body, in definition order: a class
\* namespace keeps one attribute per name
OwnTagLists ==
    {<<>>, <<<<NOTIFY, Scope_LOCAL, "m">>>>, <<<<NOTIFY, Scope_BROADCAST_SCENE, "m">>>>,
     <<<<NOTIFY, Scope_BROADCAST, "n">>, <<NOTIFY, Scope_LOCAL, "m">>>>}

\* the classes a program defines, named in the order of their definition
UserClasses == <<"A", "B", "C">>

RECURSIVE AncestorsOf(_, _)
AncestorsOf(cls, c) ==
    LET bs == {cls[c].bases[i] : i \in 1..Len(cls[c].bases)}
    IN  bs \cup UNION {AncestorsOf(cls, b) : b \in bs}

\* the base lists python accepts for a listener class: TScript comes in as
\* (TScript, EventListener), user classes alone or in pairs with no base
\* before one of its own descendants (no consistent MRO otherwise)
BaseLists(cls) ==
    LET user == {c \in DOMAIN cls : c \notin DOMAIN RootClasses}
    IN  {<<"EventListener">>, <<"TScript", "EventListener">>}
            \cup {<<c>> : c \in user}
            \cup {<<p[1], p[2]>> : p \in {q \in user \X user :
                        q[1] # q[2] /\ q[1] \notin AncestorsOf(cls, q[2])}}

\* the for loop of EventListenerMeta.__new__ from base i on
RECURSIVE ExtendFromBases(_, _, _)
ExtendFromBases(cls, bases, i) ==
    IF i > Len(bases)
    THEN <<>>
    ELSE (IF cls[bases[i]].has_list THEN cls[bases[i]].tags ELSE <<>>)
            \o ExtendFromBases(cls, bases, i + 1)

\* EventListenerMeta.__new__, then type.__new__ calling __set_name__ of each
\* decorated method in definition order (listen appends to the new class)
MetaNew(cls, bases, own) ==
    LET create == \E i \in 1..Len(bases) : cls[bases[i]].listener
        inherited == IF create THEN ExtendFromBases(cls, bases, 1) ELSE <<>>
    IN  [bases |-> bases, listener |-> TRUE, has_list |-> create, own |-> own,
         tags |-> inherited \o own]

\* the list of the new class is the list object of its first base
ClassesAfterShared(name, bases, own) ==
    LET new == MetaNew(classes, bases, own)
        first == bases[1]
    IN  IF classes[first].has_list
        THEN DictSet([classes EXCEPT ![first].tags = @ \o own], name, new)
        ELSE DictSet(classes, name, new)

ClassesAfter(name, bases, own) == DictSet(classes, name, MetaNew(classes, bases, own))

NextClassName ==
    LET n == Cardinality(DOMAIN classes) - Cardinality(DOMAIN RootClasses)
    IN  IF n < Len(UserClasses) THEN UserClasses[n + 1] ELSE NoneV

\* class name(*bases): with the decorated methods own
DefineClass(name, bases, own) ==
    /\ construct.pc = "idle"
    /\ name = NextClassName
    /\ name # NoneV
    /\ bases \in BaseLists(classes)
    /\ classes' = ClassesAfter(name, bases, own)
    /\ UNCHANGED <<construct, reg_calls, enable_calls, moreVars>>
    /\ UNCHANGED <<containerVars, collisionVars, drainVars, frameVars, lifeVars,
                   nativeQ, sysQ, running>>

\* getattr(self, fn_name): the bound method of the instance under that name
BoundMethod(inst, fn_name) == [recv |-> inst, name |-> fn_name]

\* every scope registers globally
RegistrationForGlobal(inst, listener) ==
    LET fn == BoundMethod(inst, listener[3])
    IN  IF listener[2] = Scope_LOCAL
        THEN [inst |-> inst, api |-> "event", type |-> listener[1], key |-> inst, fn |-> fn]
        ELSE [inst |-> inst, api |-> "broadcast", type |-> listener[1], key |-> NoneV,
              fn |-> fn]

\* the match statement of EventListener.__post_init__: the registration call
\* made for one entry (evt_type, scope, fn_name)
RegistrationFor(inst, listener) ==
    LET fn == BoundMethod(inst, listener[3])
    IN  CASE listener[2] = Scope_BROADCAST ->
                [inst |-> inst, api |-> "broadcast", type |-> listener[1], key |-> NoneV,
                 fn |-> fn]
          [] listener[2] = Scope_BROADCAST_SCENE ->
                [inst |-> inst, api |-> "broadcast", type |-> listener[1],
                 key |-> go_scene[Source[inst]], fn |-> fn]
          [] listener[2] = Scope_LOCAL ->
                [inst |-> inst, api |-> "event", type |-> listener[1], key |-> inst,
                 fn |-> fn]

\* PostInit.__call__: super().__call__(*args, **kwargs) is entered
ConstructCall(inst, cls) ==
    /\ construct.pc = "idle"
    /\ inst \in Components
    /\ inst \notin DOMAIN construct.built
    /\ cls \in DOMAIN classes
    /\ classes[cls].has_list
    /\ construct' = [construct EXCEPT !.pc = "init", !.inst = inst, !.cls = cls, !.i = 1]
    /\ UNCHANGED <<classes, reg_calls, enable_calls, moreVars>>
    /\ UNCHANGED <<containerVars, collisionVars, drainVars, frameVars, lifeVars,
                   nativeQ, sysQ, running>>

\* __new__ and __init__ have returned; instance.__post_init__() is called
ConstructInit ==
    /\ construct.pc = "init"
    /\ construct' = [construct EXCEPT !.pc = "post"]
    /\ UNCHANGED <<classes, reg_calls, enable_calls, moreVars>>
    /\ UNCHANGED <<containerVars, collisionVars, drainVars, frameVars, lifeVars,
                   nativeQ, sysQ, running>>

\* one turn of the loop of EventListener.__post_init__
PostInitStep ==
    /\ construct.pc = "post"
    /\ construct.i <= Len(classes[construct.cls].tags)
    /\ LET call == RegistrationFor(construct.inst, classes[construct.cls].tags[construct.i])
       IN  /\ reg_calls' = Append(reg_calls, call)
           /\ IF call.api = "event"
              THEN /\ listeners' = AddListenerTo(listeners, call.type, call.key, call.fn)
                   /\ UNCHANGED broadcast_listeners
              ELSE /\ broadcast_listeners' =
                        AddListenerTo(broadcast_listeners, call.type, call.key, call.fn)
                   /\ UNCHANGED listeners
    /\ construct' = [construct EXCEPT !.i = @ + 1]
    /\ UNCHANGED <<classes, enable_calls, registered, moreVars>>
    /\ UNCHANGED <<collisionVars, drainVars, frameVars, lifeVars, nativeQ, sysQ, running>>

\* __post_init__ returns and PostInit.__call__ returns the instance
PostInitReturn ==
    /\ construct.pc = "post"
    /\ construct.i > Len(classes[construct.cls].tags)
    /\ construct' = [NoConstruction EXCEPT
                        !.built = DictSet(construct.built, construct.inst, construct.cls)]
    /\ UNCHANGED <<classes, reg_calls, enable_calls, moreVars>>
    /\ UNCHANGED <<containerVars, collisionVars, drainVars, frameVars, lifeVars,
                   nativeQ, sysQ, running>>

\* a program that defines listener classes and builds the scripts k1 (of o1)
\* and k2 (of o2, in either scene) from them
ProtoInstances == {"k1", "k2"}

NextProto ==
    \/ \E bases \in BaseLists(classes), own \in OwnTagLists :
            DefineClass(NextClassName, bases, own)
    \/ \E inst \in ProtoInstances, cls \in DOMAIN classes : ConstructCall(inst, cls)
    \/ ConstructInit
    \/ PostInitStep
    \/ PostInitReturn

SpecProto == InitGame /\ [][NextProto]_vars

\* ---------------------------------------------------------------- C28
RECURSIVE ConcatBaseTags(_)
ConcatBaseTags(bases) ==
    IF bases = <<>> THEN <<>> ELSE classes[Head(bases)].tags \o ConcatBaseTags(Tail(bases))

\* C28: the tag list of a listener class is the concatenation of the tag
\* lists of its direct bases, in base order, followed by the tags of its own
\* decorated methods in definition order, with nothing dropped for a repeated
\* method name; and defining a class leaves the record of every class that
\* already exists as it was
C28_TagListIsConcatenation ==
    /\ [](\A c \in DOMAIN classes \ DOMAIN RootClasses :
            classes[c].tags = ConcatBaseTags(classes[c].bases) \o classes[c].own)
    /\ [][\A c \in DOMAIN classes : c \in DOMAIN classes' /\ classes'[c] = classes[c]]_vars

\* B overrides and re-tags the method m of its base A (two entries named m),
\* and its sibling C is defined after it with tags of its own
C28_Witness ==
    /\ DOMAIN classes = DOMAIN RootClasses \cup {"A", "B", "C"}
    /\ classes["A"].tags = <<<<NOTIFY, Scope_LOCAL, "m">>>>
    /\ classes["B"].bases = <<"A">>
    /\ classes["B"].tags = <<<<NOTIFY, Scope_LOCAL, "m">>, <<NOTIFY, Scope_BROADCAST_SCENE, "m">>>>
    /\ classes["C"].bases = <<"A">>
    /\ classes["C"].tags = <<<<NOTIFY, Scope_LOCAL, "m">>, <<NOTIFY, Scope_BROADCAST, "n">>,
                             <<NOTIFY, Scope_LOCAL, "m">>>>

\* ---------------------------------------------------------------- C27
CallsOf(inst) == SelectSeq(reg_calls, LAMBDA c : c.inst = inst)

ExpectedCall(inst, tag) ==
    [inst |-> inst,
     api |-> IF tag[2] = Scope_LOCAL THEN "event" ELSE "broadcast",
     type |-> tag[1],
     key |-> IF tag[2] = Scope_LOCAL THEN inst
             ELSE IF tag[2] = Scope_BROADCAST_SCENE THEN go_scene[Source[inst]] ELSE NoneV,
     fn |-> [recv |-> inst, name |-> tag[3]]]

ExpectedCalls(inst, cls, n) == [i \in 1..n |-> ExpectedCall(inst, classes[cls].tags[i])]

\* C27: the registration calls made for an instance are none until its
\* constructor has returned, then one per entry of its class's tag list in
\* list order, each with the bound method of that name: LOCAL with the
\* instance (landing under its owning game object), BROADCAST_SCENE with the
\* scene of the owning game object, BROADCAST with None
C27_RegistersAfterConstructor ==
    /\ [](\A inst \in Components :
            CallsOf(inst) =
                IF inst \in DOMAIN construct.built
                THEN ExpectedCalls(inst, construct.built[inst],
                                   Len(classes[construct.built[inst]].tags))
                ELSE IF construct.inst = inst /\ construct.pc = "post"
                THEN ExpectedCalls(inst, construct.cls, construct.i - 1)
                ELSE <<>>)
    /\ [][reg_calls' # reg_calls =>
            LET c == reg_calls'[Len(reg_calls')]
                d == IF c.api = "event" THEN listeners'[c.type] ELSE broadcast_listeners'[c.type]
                k == IF c.api = "event" THEN Source[c.inst] ELSE c.key
            IN  /\ construct.pc = "post"
                /\ Len(reg_calls') = Len(reg_calls) + 1
                /\ k \in DOMAIN d
                /\ d[k][Len(d[k])] = c.fn]_vars

\* the script k2 of o2, in the scene "other", is built from a class with a
\* LOCAL, a BROADCAST and a BROADCAST_SCENE entry
C27_Witness ==
    /\ "k2" \in DOMAIN construct.built
    /\ go_scene["o2"] = "other"
    /\ Len(CallsOf("k2")) >= 3
    /\ \E i \in 1..Len(reg_calls) : reg_calls[i].inst = "k2" /\ reg_calls[i].key = "other"
    /\ \E i \in 1..Len(reg_calls) : reg_calls[i].inst = "k2" /\ reg_calls[i].api = "event"
    /\ \E i \in 1..Len(reg_calls) :
            reg_calls[i].inst = "k2" /\ reg_calls[i].api = "broadcast" /\ reg_calls[i].key = NoneV

\* ---------------------------------------------------------------- C33
\* the frame ends: renderer.render() has run update_cache
RenderStep == phase = "end" /\ phase' = "loop"
\* update_cache did not return early
CacheRebuilt == ~(renderer.cached_scene = active_scene /\ ~renderer.scheduled_update)

\* C33: the renderer rebuilds its cache only when the active scene differs
\* from the cached scene or a cache update was scheduled since the last
\* rebuild, and after a render the flag requests no further rebuild
C33_RebuildOnlyWhenScheduled ==
    [][RenderStep =>
        /\ CacheRebuilt => (renderer.cached_scene # active_scene \/ renderer.dirty)
        /\ ~renderer'.scheduled_update]_vars

\* ------------------------------------------------------- Scene.update
\* transform.move(delta): the one step a moving script takes per update
Moved(pos) == IF pos = "p0" THEN "p1" ELSE "p0"
\* the test of OOBCleanup.update on the bounds it was given
OutOfBounds(pos) == pos = "p1"
Other(o) == IF o = "o1" THEN "o2" ELSE "o1"

\* GameObject.update: component.update(dt) for each component in order, for
\* the script components list of the object go. st is the position of go,
\* the store_phys of every script, and the game object destroy() was called
\* on (NoneV: none). A script of kind "collision" is a CollisionScript, "mover"
\* moves its object, "oob_cleanup" is OOBCleanup, "kill_other" destroys the
\* other game object.
RECURSIVE RunScripts(_, _, _)
RunScripts(go, list, st) ==
    IF list = <<>>
    THEN st
    ELSE LET sc == Head(list)
             after ==
                CASE sc.kind = "collision" -> [st EXCEPT !.phys[sc.id] = st.pos]
                  [] sc.kind = "mover" -> [st EXCEPT !.pos = Moved(st.pos)]
                  [] sc.kind = "oob_cleanup" ->
                        IF OutOfBounds(st.pos) THEN [st EXCEPT !.destroyed = go] ELSE st
                  [] sc.kind = "kill_other" ->
                        IF exists[Other(go)] THEN [st EXCEPT !.destroyed = Other(go)] ELSE st
                  [] OTHER -> st
         IN  RunScripts(go, Tail(list), after)

\* BaseGame.gameloop: a frame begins, the clock gives its dt and
\* scenes[active_scene].update(dt) is entered
FrameStartScene(frame_dt) ==
    /\ phase = "loop"
    /\ running
    /\ dt' = frame_dt
    /\ phase' = "scene"
    /\ sweep' = [pc |-> "loop", scene |-> active_scene, i |-> 0,
                 start |-> scene_objs[active_scene], updated |-> <<>>]
    /\ UNCHANGED <<nativeQ, sysQ, containerVars, running, lifeVars, drainVars, collisionVars,
                   protoVars, enable_calls, scripts, position, store_phys, scene_objs,
                   renderer, detached, toolVars, lost>>

\* the list iterator of the for loop: it counts the items it has handed out,
\* whatever happens to the list
IterAfter(i, before, after) == i + 1

\* Scene.update: one turn of `for go in self.gameobjects: go.update(dt)`
SceneUpdateStep ==
    /\ phase = "scene"
    /\ sweep.pc = "loop"
    /\ sweep.i < Len(scene_objs[sweep.scene])
    /\ LET go == scene_objs[sweep.scene][sweep.i + 1]
           st == RunScripts(go, scripts[go],
                            [pos |-> position[go], phys |-> store_phys, destroyed |-> NoneV])
       IN  /\ position' = [position EXCEPT ![go] = st.pos]
           /\ store_phys' = st.phys
           /\ IF st.destroyed # NoneV
              THEN DestroyEffect(st.destroyed)
              ELSE UNCHANGED <<containerVars, collision_layers, scene_objs, renderer, exists>>
           /\ sweep' = [sweep EXCEPT
                            !.i = IterAfter(sweep.i, scene_objs[sweep.scene],
                                            scene_objs'[sweep.scene]),
                            !.updated = Append(@, go)]
    /\ UNCHANGED <<nativeQ, sysQ, running, controller, drainVars, interractions, colliders,
                   go_scene, active_scene, emitted, frameVars, protoVars, enable_calls,
                   scripts, detached, toolVars, lost>>

\* Scene.update: the iterator is exhausted, the loop ends
SceneUpdateReturn ==
    /\ phase = "scene"
    /\ sweep.pc = "loop"
    /\ sweep.i >= Len(scene_objs[sweep.scene])
    /\ sweep' = [sweep EXCEPT !.pc = "idle"]
    /\ phase' = "hook1"
    /\ UNCHANGED <<nativeQ, sysQ, containerVars, running, lifeVars, drainVars, collisionVars,
                   dt, protoVars, enable_calls, scripts, position, store_phys, scene_objs,
                   renderer, detached, toolVars, lost>>

\* a game whose objects carry an OOBCleanup script, a script that destroys the
\* other object, a moving script, or none; both objects in the scene "default"
SweepScripts ==
    {<<>>, <<[id |-> "k1", kind |-> "oob_cleanup"]>>, <<[id |-> "k1", kind |-> "mover"]>>,
     <<[id |-> "k1", kind |-> "mover"], [id |-> "k3", kind |-> "oob_cleanup"]>>,
     <<[id |-> "k1", kind |-> "kill_other"]>>}

InitSweep ==
    /\ InitBase
    /\ scripts \in [GameObjects -> SweepScripts]
    /\ position \in [GameObjects -> Positions]
    /\ store_phys = [k \in Components |-> NoneV]
    /\ ctl = NoController
    /\ loader = NoLoader
    /\ running = FALSE
    /\ controller = "base"
    /\ go_scene = [o \in GameObjects |-> "default"]
    /\ phase = "setup"
    /\ scene_objs = SceneLists(go_scene)

NextSweep ==
    \/ StartGame
    \/ \E d \in DTs : FrameStartScene(d)
    \/ SceneUpdateStep
    \/ SceneUpdateReturn
    \/ Update
    \/ UpdateSystem
    \/ \E t \in {COLLISION, TRIGGER}, order \in Orders(interractions), first \in Layers :
            HandleCollisions(t, order, first)
    \/ FrameEnd
    \/ Return

SpecSweep == InitSweep /\ [][NextSweep]_vars

\* ---------------------------------------------------------------- C40
\* Scene.update has returned in this frame
SweepDone == phase = "hook1" /\ sweep.pc = "idle" /\ sweep.scene # NoneV
TimesUpdated(o) == Cardinality({i \in 1..Len(sweep.updated) : sweep.updated[i] = o})

\* C40: when Scene.update returns, every game object that was in the active
\* scene when the frame started and was not destroyed during the frame has had
\* update(dt) called exactly once
C40_EveryObjectUpdatedOnce ==
    SweepDone =>
        \A k \in 1..Len(sweep.start) :
            exists[sweep.start[k]] => TimesUpdated(sweep.start[k]) = 1

\* ------------------------------------- hooks that act on the game
\* the list object the for loop of _eventloop iterates is the list the
\* container holds for the event in dispatch, until the container replaces or
\* drops it (detached)
InDispatch == routed[Len(routed)]

\* the callable n is registered while an event is in dispatch: the container
\* appends to the list in dispatch when n goes to the same bucket, type and
\* key and the key is present (the list object is the one being iterated)
JoinsDispatch(n) ==
    LET d == IF HookDef[n].scope = "local" THEN listeners ELSE broadcast_listeners
    IN  /\ ~detached
        /\ HookDef[n].scope = InDispatch.bucket
        /\ HookDef[n].type = batch[bi].type
        /\ HookDef[n].key = InDispatch.key
        /\ HookDef[n].key \in DOMAIN d[HookDef[n].type]

\* ... or assigns a new list under the key of the list in dispatch
ReplacesDispatch(n) ==
    LET d == IF HookDef[n].scope = "local" THEN listeners ELSE broadcast_listeners
    IN  /\ HookDef[n].scope = InDispatch.bucket
        /\ HookDef[n].type = batch[bi].type
        /\ HookDef[n].key \notin DOMAIN d[HookDef[n].type]
        /\ NormKey(n) = InDispatch.key

\* remove_gameobject drops (local bucket) or replaces by a filtered copy
\* (broadcast bucket) the list in dispatch
RemovalDetaches(gameobject) ==
    /\ controller = "base"
    /\ \/ InDispatch.bucket = "broadcast"
       \/ InDispatch.bucket = "local" /\ InDispatch.key = gameobject

\* _eventloop: hook(event) for the next hook of the list, for callables that
\* act on the game and not on the queues: CollisionScript.on_collision
\* ("on_collision"), a callable that registers another one ("register") or
\* destroys a game object ("destroy"), or one that does nothing of it ("noop").
\* The for loop goes on while the list object holds a further item.
InvokeActor ==
    /\ pc = "hooks"
    /\ LET h == iterList[hi]
           act == HookDef[h].act
           arg == IF h \in DOMAIN ActArg THEN ActArg[h] ELSE NoneV
           joins == act = "register" /\ ~IsRegistered(arg) /\ JoinsDispatch(arg)
           list == IF joins THEN Append(iterList, arg) ELSE iterList
       IN  /\ act \in {"noop", "on_collision", "register", "destroy"}
           /\ calls' = Append(calls, [bi |-> bi, hook |-> h, exists |-> exists[Owner(h)]])
           /\ iterList' = list
           /\ IF act = "on_collision"
              THEN position' = [position EXCEPT ![Owner(h)] = store_phys[HookDef[h].recv]]
              ELSE UNCHANGED position
           /\ IF act = "register" /\ ~IsRegistered(arg)
              THEN /\ registered' = [registered EXCEPT ![HookDef[arg].scope][HookDef[arg].type] =
                        DictSet(@, NormKey(arg), Append(DictGet(@, NormKey(arg), <<>>), arg))]
                   /\ IF HookDef[arg].scope = "local"
                      THEN /\ listeners' = AddListenerTo(listeners, HookDef[arg].type,
                                                         HookDef[arg].key, arg)
                           /\ UNCHANGED broadcast_listeners
                      ELSE /\ broadcast_listeners' = AddListenerTo(broadcast_listeners,
                                        HookDef[arg].type, HookDef[arg].key, arg)
                           /\ UNCHANGED listeners
                   /\ UNCHANGED <<collision_layers, scene_objs, renderer, exists>>
              ELSE IF act = "destroy"
              THEN DestroyEffect(arg)
              ELSE UNCHANGED <<containerVars, collision_layers, scene_objs, renderer, exists>>
           /\ IF hi < Len(list)
              THEN /\ hi' = hi + 1
                   /\ detached' = (\/ detached
                                   \/ act = "register" /\ ~IsRegistered(arg)
                                        /\ ReplacesDispatch(arg)
                                   \/ act = "destroy" /\ RemovalDetaches(arg))
                   /\ UNCHANGED <<pc, bi>>
              ELSE /\ hi' = hi
                   /\ detached' = FALSE
                   /\ NextEvent
    /\ UNCHANGED <<nativeQ, sysQ, running, controller, drainKind, batch, routed,
                   interractions, colliders, go_scene, active_scene, emitted, frameVars,
                   protoVars, enable_calls, scripts, store_phys, sweep, toolVars, lost>>

\* ------------------------------------------- a CollisionScript at work
\* o1 carries the CollisionScript k1 and the script k3, which moves o1 on
\* every update and listens to COLLISION itself; the scripts are built, and
\* register their listeners, in either order. The colliders c1 (of o1) and c2
\* (of o2) overlap, on layers that interact.
PhysHooks == {"h11", "h12"}
PhysScripts ==
    {<<[id |-> "k1", kind |-> "collision"], [id |-> "k3", kind |-> "mover"]>>,
     <<[id |-> "k3", kind |-> "mover"], [id |-> "k1", kind |-> "collision"]>>,
     <<[id |-> "k1", kind |-> "collision"]>>}

InitPhys ==
    /\ InitBase
    /\ scripts \in {[o \in GameObjects |-> IF o = "o1" THEN sl ELSE <<>>] : sl \in PhysScripts}
    /\ position \in [GameObjects -> Positions]
    \* CollisionScript.__init__: store_phys = source.transform.position
    /\ store_phys = [k \in Components |-> IF k = "k1" THEN position["o1"] ELSE NoneV]
    /\ ctl = NoController
    /\ loader = NoLoader
    /\ running = FALSE
    /\ controller = "base"
    /\ go_scene = [o \in GameObjects |-> "default"]
    /\ phase = "setup"
    /\ scene_objs = SceneLists(go_scene)

NextPhys ==
    \/ \E h \in PhysHooks : Register(h)
    \/ \E c \in {"c1", "c2"}, p \in BOOLEAN :
            CreateCollider(c, IF c = "c1" THEN <<"L1">> ELSE <<"L2">>, p, {"x1"})
    \/ EnableCollision("L1", "L2") /\ UNCHANGED enable_calls
    \/ StartGame
    \/ \E d \in DTs : FrameStartScene(d)
    \/ SceneUpdateStep
    \/ SceneUpdateReturn
    \/ Update
    \/ UpdateSystem
    \/ \E t \in {COLLISION, TRIGGER}, order \in Orders(interractions), first \in Layers :
            HandleCollisions(t, order, first)
    \/ FrameEnd
    \/ BeginEvent
    \/ InvokeActor
    \/ Return

SpecPhys == InitPhys /\ [][NextPhys]_vars

\* ---------------------------------------------------------------- C31
\* the solid-collision pass of the frame and the system drain after it are
\* over; from here to the end of the frame nothing moves a game object
AfterCollisionDrain == phase = "hook3" /\ pc = "idle"

\* C31: when the collision pass of a frame emitted a COLLISION event that
\* targets o1, whose CollisionScript k1 has registered its listener, the
\* position of o1 after the system drain of that pass, and so at the end of
\* the frame, is the position k1 recorded at its update of that frame
C31_PositionRestored ==
    (/\ AfterCollisionDrain
     /\ IsRegistered("h11")
     /\ \E i \in 1..Len(emitted) :
            emitted[i].type = COLLISION /\ ColliderSource[emitted[i].a] = "o1")
        => position["o1"] = store_phys["k1"]

\* ------------------------------------- ExtendedSystemController.update
\* The extended systems a controller can be built with, and the sequence
\* hooks each of them returns from get_sequence_hooks.
SystemHooks == [sx |-> <<>>, sy |-> <<"y1">>, sz |-> <<"z1", "z2">>]
MaxSystems == 3
SystemDicts ==
    {s \in UNION {[1..n -> DOMAIN SystemHooks] : n \in 0..MaxSystems} :
        \A i, j \in 1..Len(s) : i # j => s[i] # s[j]}

\* an entry of a hook sequence: a callable taking dt, or a list object
Callable(of, fn) == [callable |-> TRUE, of |-> of, fn |-> fn, items |-> <<>>]
ListObject(items) == [callable |-> FALSE, of |-> NoneV, fn |-> NoneV, items |-> items]

\* ISystem.get_sequence_hooks of an extended system: a list of callables
SystemSequenceHooks(system) ==
    [k \in 1..Len(SystemHooks[system]) |-> Callable(system, SystemHooks[system][k])]

\* itertools.chain(*iterables): the elements of each argument in turn
RECURSIVE Chain(_)
Chain(iterables) ==
    IF iterables = <<>> THEN <<>> ELSE Head(iterables) \o Chain(Tail(iterables))

\* BaseSystemController.get_sequence_hooks
BaseSequenceHooks ==
    <<Callable("event_system", "update"),
      Callable("collision_system", "handle_collisions_COLLISION"),
      Callable("collision_system", "handle_collisions_TRIGGER")>>

\* list(itertools.chain(system.get_sequence_hooks() for system in ...)): chain
\* receives one iterable, the generator, and yields its elements: the lists
ExtendedHooks(systems) ==
    Chain(<<[k \in 1..Len(systems) |-> ListObject(SystemSequenceHooks(systems[k]))]>>)

\* ExtendedSystemController.get_sequence_hooks
GetSequenceHooks(systems) == BaseSequenceHooks \o ExtendedHooks(systems)

\* ExtendedSystemController(extended_systems): extended_systems is set first,
\* BaseSystemController.__init__ then computes sequence_hooks
NewController(systems) ==
    [NoController EXCEPT !.extended_systems = systems,
                         !.sequence_hooks = GetSequenceHooks(systems)]

LogCall(of, fn, d) == [of |-> of, fn |-> fn, dt |-> d]

\* update(dt) is called: BaseSystemController.update starts its loop
CtlUpdate(d) ==
    /\ ctl.pc = "idle"
    /\ ctl' = [ctl EXCEPT !.pc = "hook", !.i = 1, !.dt = d, !.raised = FALSE,
                          !.log = <<>>]
    /\ UNCHANGED <<gameVars, loader>>

\* hook(dt): a callable is called; calling a list raises TypeError
CtlHook ==
    /\ ctl.pc = "hook"
    /\ LET hook == ctl.sequence_hooks[ctl.i]
       IN  ctl' = IF hook.callable
                  THEN [ctl EXCEPT !.pc = "drain",
                                   !.log = Append(@, LogCall(hook.of, hook.fn, ctl.dt))]
                  ELSE [ctl EXCEPT !.pc = "raised"]
    /\ UNCHANGED <<gameVars, loader>>

\* self.event_system.update_system(dt), then the next hook; after the last
\* one BaseSystemController.update returns into ExtendedSystemController.update
CtlDrain ==
    /\ ctl.pc = "drain"
    /\ ctl' = [ctl EXCEPT !.log = Append(@, LogCall("event_system", "update_system", ctl.dt)),
                          !.i = @ + 1,
                          !.pc = IF ctl.i < Len(ctl.sequence_hooks) THEN "hook"
                                 ELSE "systems"]
    /\ UNCHANGED <<gameVars, loader>>

\* for system in self.extended_systems.values(): system.update(dt); return
CtlSystemsUpdate ==
    /\ ctl.pc = "systems"
    /\ ctl' = [ctl EXCEPT !.pc = "idle",
                          !.log = @ \o [k \in 1..Len(ctl.extended_systems) |->
                                            LogCall(ctl.extended_systems[k], "update", ctl.dt)]]
    /\ UNCHANGED <<gameVars, loader>>

\* the TypeError leaves update(dt)
CtlRaise ==
    /\ ctl.pc = "raised"
    /\ ctl' = [ctl EXCEPT !.pc = "idle", !.raised = TRUE]
    /\ UNCHANGED <<gameVars, loader>>

InitCtl ==
    /\ InitBase
    /\ scripts = [o \in GameObjects |-> <<>>]
    /\ position = [o \in GameObjects |-> "p0"]
    /\ store_phys = [k \in Components |-> NoneV]
    /\ ctl \in {NewController(systems) : systems \in SystemDicts}
    /\ loader = NoLoader
    /\ running = TRUE
    /\ controller = "extended"
    /\ go_scene = [o \in GameObjects |-> "default"]
    /\ phase = "free"
    /\ scene_objs = SceneLists(go_scene)

NextCtl ==
    \/ \E d \in DTs : CtlUpdate(d)
    \/ CtlHook
    \/ CtlDrain
    \/ CtlSystemsUpdate
    \/ CtlRaise

SpecCtl == InitCtl /\ [][NextCtl]_vars

\* ---------------------------------------------------------------- C32
\* the calls the statement describes for one update(dt): every hook of the
\* sequence followed by a system drain, then update of every extended system
RECURSIVE WithDrains(_, _)
WithDrains(hooks, d) ==
    IF hooks = <<>> THEN <<>>
    ELSE <<LogCall(Head(hooks).of, Head(hooks).fn, d),
           LogCall("event_system", "update_system", d)>> \o WithDrains(Tail(hooks), d)

\* the hooks of every extended system, one after the other
ExtendedHooksFlat(systems) ==
    Chain([k \in 1..Len(systems) |-> SystemSequenceHooks(systems[k])])

StatedCalls(systems, d) ==
    WithDrains(BaseSequenceHooks \o ExtendedHooksFlat(systems), d)
        \o [k \in 1..Len(systems) |-> LogCall(systems[k], "update", d)]

UpdateOver == ctl.pc = "idle" /\ ctl.dt # NoneV

\* C32: the hook sequence of the controller is the three base hooks followed
\* by every sequence hook of every extended system, each entry a callable;
\* an update(dt) that is over has called them in that order, each followed by
\* a system drain, and then update(dt) of every extended system
C32_HookSequenceFlat ==
    /\ ctl.sequence_hooks = BaseSequenceHooks \o ExtendedHooksFlat(ctl.extended_systems)
    /\ \A k \in 1..Len(ctl.sequence_hooks) : ctl.sequence_hooks[k].callable
    /\ UpdateOver =>
           /\ ~ctl.raised
           /\ ctl.log = StatedCalls(ctl.extended_systems, ctl.dt)

\* --------------------------------------------------------- PluginLoader
\* The plugins of a load path; every manifest requires at most MaxRequires
\* of them, itself included (load_dependency_graph only checks that every
\* required plugin has a manifest).
Plugins == {"pa", "pb", "pc"}
MaxRequires == 2
RequiresLists ==
    {r \in UNION {[1..n -> Plugins] : n \in 0..MaxRequires} :
        \A i, j \in 1..Len(r) : i # j => r[i] # r[j]}
\* the orders in which glob can yield the manifests: the key order of graph
KeyOrders ==
    {k \in [1..Cardinality(Plugins) -> Plugins] :
        \A i, j \in 1..Len(k) : i # j => k[i] # k[j]}

RecursionError == [raised |-> TRUE, stack |-> <<>>]

\* PluginLoader.get_single_load_strategy(to_load, loop_check, current); the
\* loop over deps is LoadDeps, load_stack its accumulator
RECURSIVE GetSingleLoadStrategy(_, _, _)
RECURSIVE LoadDeps(_, _, _, _)
GetSingleLoadStrategy(graph, to_load, loop_check) ==
    IF to_load \in loop_check
    THEN RecursionError
    ELSE LoadDeps(graph, graph[to_load], {to_load} \cup loop_check, <<to_load>>)

LoadDeps(graph, deps, loop_tracker, load_stack) ==
    IF deps = <<>>
    THEN [raised |-> FALSE, stack |-> load_stack]
    ELSE LET r == GetSingleLoadStrategy(graph, Head(deps), loop_tracker)
         IN  IF r.raised THEN r
             ELSE LoadDeps(graph, Tail(deps), loop_tracker, load_stack \o r.stack)

\* the first loop of get_load_strategy: load_stack over the keys in order
RECURSIVE LoadStack(_, _)
LoadStack(graph, keys) ==
    IF keys = <<>>
    THEN [raised |-> FALSE, stack |-> <<>>]
    ELSE LET r == GetSingleLoadStrategy(graph, Head(keys), {})
             rest == LoadStack(graph, Tail(keys))
         IN  IF r.raised THEN r
             ELSE IF rest.raised THEN rest
             ELSE [raised |-> FALSE, stack |-> r.stack \o rest.stack]

\* the second loop of get_load_strategy: res, the items of load_stack[::-1]
\* without repetition
RECURSIVE SingleOccurrences(_, _)
SingleOccurrences(items, res) ==
    IF items = <<>> THEN res
    ELSE SingleOccurrences(Tail(items),
                           IF Head(items) \in SeqToSet(res) THEN res
                           ELSE Append(res, Head(items)))

Reversed(s) == [k \in 1..Len(s) |-> s[Len(s) + 1 - k]]

Res(load_stack) == SingleOccurrences(Reversed(load_stack), <<>>)

\* what get_load_strategy returns, of the two lists it has built
ReturnLoadStack(load_stack, res) == load_stack

\* PluginLoader.get_load_strategy: res is computed, load_stack is returned
GetLoadStrategy(graph, keys) ==
    LET r == LoadStack(graph, keys)
    IN  IF r.raised THEN r
        ELSE [raised |-> FALSE, stack |-> ReturnLoadStack(r.stack, Res(r.stack))]

\* loader.get_load_strategy() is called
GetLoadStrategyCall ==
    /\ loader.pc = "idle"
    /\ LET r == GetLoadStrategy(loader.graph, loader.order)
       IN  loader' = [loader EXCEPT !.pc = IF r.raised THEN "raised" ELSE "strategy",
                                    !.result = r.stack]
    /\ UNCHANGED <<gameVars, ctl>>

\* loader.load_modules() is called: to_load = self.get_load_strategy()
LoadModulesCall ==
    /\ loader.pc \in {"idle", "strategy"}
    /\ LET r == GetLoadStrategy(loader.graph, loader.order)
       IN  loader' = [loader EXCEPT !.pc = IF r.raised THEN "raised" ELSE "loading",
                                    !.to_load = r.stack, !.printed = <<>>]
    /\ UNCHANGED <<gameVars, ctl>>

\* one round of the while loop of load_modules: loaded is never added to, so
\* no head is skipped
LoadModulesStep ==
    /\ loader.pc = "loading"
    /\ loader.to_load # <<>>
    /\ loader' = [loader EXCEPT !.to_load = Tail(@),
                                !.printed = Append(@, Head(loader.to_load))]
    /\ UNCHANGED <<gameVars, ctl>>

LoadModulesReturn ==
    /\ loader.pc = "loading"
    /\ loader.to_load = <<>>
    /\ loader' = [loader EXCEPT !.pc = "loaded"]
    /\ UNCHANGED <<gameVars, ctl>>

NewLoader(graph, keys) == [NoLoader EXCEPT !.graph = graph, !.order = keys]

InitLoader ==
    /\ InitBase
    /\ scripts = [o \in GameObjects |-> <<>>]
    /\ position = [o \in GameObjects |-> "p0"]
    /\ store_phys = [k \in Components |-> NoneV]
    /\ ctl = NoController
    /\ loader \in {NewLoader(g, k) : g \in [Plugins -> RequiresLists], k \in KeyOrders}
    /\ running = FALSE
    /\ controller = "base"
    /\ go_scene = [o \in GameObjects |-> "default"]
    /\ phase = "setup"
    /\ scene_objs = SceneLists(go_scene)

NextLoader ==
    \/ GetLoadStrategyCall
    \/ LoadModulesCall
    \/ LoadModulesStep
    \/ LoadModulesReturn

SpecLoader == InitLoader /\ [][NextLoader]_vars

\* ---------------------------------------------------------------- C34
\* the plugins a plugin requires, directly or through others
RECURSIVE RequiredWithin(_, _, _)
RequiredWithin(graph, plugin, n) ==
    IF n = 0 THEN {}
    ELSE LET direct == SeqToSet(graph[plugin])
         IN  direct \cup UNION {RequiredWithin(graph, d, n - 1) : d \in direct}

Requires(graph, plugin) == RequiredWithin(graph, plugin, Cardinality(Plugins))
Acyclic(graph) == \A p \in Plugins : p \notin Requires(graph, p)

\* C34: for an acyclic dependency graph, the list get_load_strategy returned
\* holds each plugin of the graph exactly once, and every plugin comes after
\* the plugins it requires
C34_LoadStrategyTopological ==
    (loader.pc = "strategy" /\ Acyclic(loader.graph)) =>
        /\ \A p \in Plugins :
               Cardinality({k \in 1..Len(loader.result) : loader.result[k] = p}) = 1
        /\ \A i, j \in 1..Len(loader.result) :
               loader.result[j] \in SeqToSet(loader.graph[loader.result[i]]) => j < i

\* ---------------------------------------------------------------- C35
\* the event is justified by the colliders a (of its target) and b (of the
\* game object in collides) in the enabled interaction inter
Justifies(e, inter, a, b) ==
    /\ ColliderSource[a] = e.target
    /\ ColliderSource[b] = e.collides
    /\ Qualifies(inter, a, b, e.type)

\* C35: when a pass has run, every event it made targets a game object other
\* than the one in collides, and there are a collider of the target and a
\* collider of the other game object, in layers that form an enabled
\* interaction, both with the physics flag of the pass, both of the active
\* scene, with overlapping masks; and the two colliders the event was made
\* for are such a pair, so colliders of layers without an enabled interaction,
\* or with different physics flags, make no event with each other
C35_EventsJustified ==
    PassDone =>
        \A i \in 1..Len(emitted) :
            LET e == emitted[i]
            IN  /\ e.type = PassType
                /\ e.target # e.collides
                /\ \E inter \in interractions : \E a, b \in DOMAIN colliders :
                        Justifies(e, inter, a, b)
                /\ e.inter \in interractions
                /\ Justifies(e, e.inter, e.a, e.b)
                /\ colliders[e.a].physics = colliders[e.b].physics

\* a pass has run and made events, while c3 (of o1) and c2 (of o2) overlap in
\* the layers of an enabled interaction with different physics flags, and made
\* none
C35_Witness ==
    /\ PassDone
    /\ emitted # <<>>
    /\ {"c2", "c3"} \subseteq DOMAIN colliders
    /\ colliders["c2"].physics # colliders["c3"].physics
    /\ colliders["c2"].cells \cap colliders["c3"].cells # {}
    /\ \E inter \in interractions : Placed(inter, "c3", "c2")
    /\ \A i \in 1..Len(emitted) : {emitted[i].a, emitted[i].b} # {"c2", "c3"}

\* -------------------------------------------- a drain that raises
\* what a queue holds once the exception has left _eventloop: rest is what
\* the loop had not reached of the list the queue's get returned
RaisedQueueRequeued(queue, rest) == rest \o queue
RaisedQueue(queue, rest) == queue

\* _eventloop: the NotImplementedError of get_listeners leaves the loop and
\* update / update_system; nothing catches it on the way, the list
\* event_source.get() returned is dropped with the frame of the call
RaiseOut ==
    /\ pc = "raised"
    /\ LET rest == SubSeq(batch, bi + 1, Len(batch))
       IN  /\ lost' = SeqToSet(rest)
           /\ nativeQ' = IF drainKind = "native" THEN RaisedQueue(nativeQ, rest) ELSE nativeQ
           /\ sysQ' = IF drainKind = "system" THEN RaisedQueue(sysQ, rest) ELSE sysQ
    /\ pc' = "idle"
    /\ batch' = <<>>
    /\ bi' = 1
    /\ iterList' = <<>>
    /\ hi' = 1
    /\ calls' = <<>>
    /\ routed' = <<>>
    /\ UNCHANGED <<containerVars, running, lifeVars, protoVars, enable_calls, sceneVars,
                   renderer, detached, toolVars, drainKind, collisionVars, frameVars>>

\* target lists with the component k1, which get_listeners knows no bucket for
RaiseTargets == {<<"o2">>, <<"k1">>, <<"k1", "o2">>}
RaiseHooks == {"h3"}

\* the caller of update / update_system catches the exception and goes on
NextRaise ==
    \/ \E tl \in RaiseTargets, s \in BOOLEAN : Send(NOTIFY, tl, KDict, s)
    \/ \E h \in RaiseHooks : Register(h)
    \/ Update
    \/ UpdateSystem
    \/ BeginEvent
    \/ InvokeHook
    \/ Return
    \/ RaiseOut

SpecRaise == Init /\ [][NextRaise]_vars

\* ---------------------------------------------------------------- C36
\* C36: while a drain is stopped by a routing error, the events of its batch
\* after the raising one are in no queue and none of them has been routed or
\* has had a listener invoked; once the exception has left the drain they are
\* in no queue and in the batch of no later drain
C36_RestOfBatchLost ==
    /\ pc = "raised" =>
           /\ Len(routed) = bi
           /\ \A c \in 1..Len(calls) : calls[c].bi < bi
           /\ \A k \in (bi + 1)..Len(batch) :
                  batch[k] \notin SeqToSet(nativeQ) \cup SeqToSet(sysQ)
    /\ \A e \in lost : e \notin SeqToSet(nativeQ) \cup SeqToSet(sysQ) \cup SeqToSet(batch)

\* a drain raised at an event for k1 and lost the event for o2 that followed
\* it; a later drain has dispatched another event to the listener of o2
C36_Witness ==
    /\ \E e \in lost : e.dict["listener"] = "o2"
    /\ pc = "done"
    /\ \E c \in 1..Len(calls) : calls[c].hook = "h3"

\* ---------------------------------------------------------------- C37
\* the frame goes from the native drain through the passes and the system
\* drains to its end, then to the head of the loop
FrameOrder ==
    {<<"hook1", "sys1">>, <<"sys1", "hook2">>, <<"hook2", "sys2">>, <<"sys2", "hook3">>,
     <<"hook3", "sys3">>, <<"sys3", "end">>, <<"end", "loop">>}

\* C37: a drain that is over has routed every event of its batch, the quit
\* events and those after them included, and has invoked for each routed one
\* the listeners found for it; once stop has been called the frame still
\* takes its steps in order and the loop exits only at its head; the frame in
\* which a quit event was dispatched reaches its end and is rendered
C37_QuitDoesNotCutShort ==
    /\ [](pc = "done" =>
            /\ Len(routed) = Len(batch)
            /\ \A k \in 1..Len(batch) :
                   batch[k].type = QUIT =>
                       /\ routed[k].status = "routed"
                       /\ CallHooks(k) = routed[k].list)
    /\ [][(~running /\ phase # "setup" /\ phase' # phase) =>
              \/ <<phase, phase'>> \in FrameOrder
              \/ (phase = "loop" /\ phase' = "exited")]_vars
    /\ (~running /\ phase = "sys1") ~> (~running /\ phase = "end" /\ pc = "idle")
    /\ (~running /\ phase = "end") ~> (phase = "loop")

\* the native drain of a frame is over: it took two quit events, called stop
\* at the first, and still invoked the quit listener for both
C37_Witness ==
    /\ ~running
    /\ phase = "sys1"
    /\ pc = "done"
    /\ drainKind = "native"
    /\ Len(batch) = 2
    /\ batch[1].type = QUIT
    /\ calls = <<[bi |-> 1, hook |-> "h7"], [bi |-> 2, hook |-> "h7"]>>

\* ---------------------------------- listeners that register listeners
\* h13, a listener of o1 for NOTIFY, registers h14 for the same type and key
\* the first time it is invoked; h1 is another listener of o1
JoinHooks == {"h1", "h13"}

NextJoin ==
    \/ \E s \in BOOLEAN : Send(NOTIFY, <<"o1">>, KDict, s)
    \/ \E h \in JoinHooks : Register(h)
    \/ Update
    \/ UpdateSystem
    \/ BeginEvent
    \/ InvokeActor
    \/ Return

SpecJoin == Init /\ [][NextJoin]_vars

\* ---------------------------------------------------------------- C38
\* C38: the dispatch of an event invokes the listeners that were in the list
\* for it when its dispatch began, and no other: while the event is in
\* dispatch the invocations made for it are a prefix of that list, and once
\* it is over they are that list; a listener registered meanwhile is not
\* among them
C38_ListenersFixedAtDispatch ==
    \A k \in 1..Len(routed) :
        routed[k].status = "routed" =>
            /\ IsPrefix(CallHooks(k), routed[k].list)
            /\ (k < bi \/ pc = "done") => CallHooks(k) = routed[k].list

\* ------------------------------------ listeners that destroy objects
\* listeners of o1 for NOTIFY: h15 (targeted) and h16 (broadcast) call
\* o1.destroy(), h14 (targeted) and h17 (broadcast) do nothing, h18 is a
\* broadcast listener of k1, a script of o1; they are registered in any order
ReapHooks == {"h14", "h15", "h16", "h17", "h18"}

NextReap ==
    \/ Send(NOTIFY, <<"o1">>, KDict, FALSE)
    \/ SendNone(NOTIFY, KDict, FALSE)
    \/ \E h \in ReapHooks : exists[Owner(h)] /\ Register(h)
    \/ Update
    \/ BeginEvent
    \/ InvokeActor
    \/ Return

SpecReap == InitLife /\ [][NextReap]_vars

\* ---------------------------------------------------------------- C39
\* the invocation calls[i] destroyed the game object o
Destroys(i, o) ==
    /\ HookDef[calls[i].hook].act = "destroy"
    /\ ActArg[calls[i].hook] = o

\* C39: an event whose dispatch is over had every listener of the list found
\* for it invoked, also those of a game object a listener before them
\* destroyed; a listener invoked after the call that destroyed its game
\* object, in the dispatch of the same event, sees exists false; and a
\* listener of a game object that no longer exists is invoked only in the
\* dispatch of the event during which the object was destroyed
C39_RemovedOnlyAfterDispatch ==
    /\ \A k \in 1..Len(routed) :
           (routed[k].status = "routed" /\ (k < bi \/ pc = "done")) =>
               CallHooks(k) = routed[k].list
    /\ \A i, j \in 1..Len(calls) :
           (i < j /\ calls[i].bi = calls[j].bi /\ Destroys(i, Owner(calls[j].hook))) =>
               ~calls[j].exists
    /\ \A j \in 1..Len(calls) :
           ~calls[j].exists =>
               \E i \in 1..(j - 1) :
                   calls[i].bi = calls[j].bi /\ Destroys(i, Owner(calls[j].hook))

====
